---- MODULE Spec2Model ----
(***************************************************************************)
(* Model of stockrag/data/parse_company_facts.py: the SEC company-facts    *)
(* normalisation pipeline (loader, validator, extractor, ranker, sentence  *)
(* builder, writer and driver).                                            *)
(*                                                                         *)
(* Representation.                                                         *)
(*  - A date string is a natural number: 0 is the empty string "" and a    *)
(*    larger number is a later ISO date, so that < on numbers is the       *)
(*    lexicographic order Python uses on the strings.  None is NoneDate.   *)
(*  - A JSON scalar whose Python type matters is a record with a type tag  *)
(*    t and payloads n (number) and s (text).                              *)
(*  - The text of a cik is a sequence of one-character strings.            *)
(*  - A Python dict that is iterated is a sequence of entries in insertion *)
(*    order; a dict that is only looked up is a function.                  *)
(***************************************************************************)
EXTENDS Integers, Sequences, FiniteSets, TLC

\* ------------------------------------------------------------------------
\* Bounds of the model
\* ------------------------------------------------------------------------

\* longest fact list handed to the ranker in SpecRank
MaxFacts == 3

\* most input files in the input directory
MaxFiles == 2

\* most runs of the pipeline over the same output directory
MaxRuns == 2

\* ------------------------------------------------------------------------
\* Constants of the program
\* ------------------------------------------------------------------------

DEFAULT_FORM_PRIORITY == 99

CIK_WIDTH == 10

MIN_FILE_SIZE_BYTES == 100

NoneDate == -1

TIER1_CONCEPTS ==
  {"EntityCommonStockSharesOutstanding", "EntityPublicFloat",
   "Assets", "AssetsCurrent", "Liabilities", "LiabilitiesCurrent",
   "LiabilitiesAndStockholdersEquity", "StockholdersEquity",
   "RetainedEarningsAccumulatedDeficit",
   "CashAndCashEquivalentsAtCarryingValue", "PropertyPlantAndEquipmentNet",
   "Revenues", "RevenueFromContractWithCustomerExcludingAssessedTax",
   "CostOfRevenue", "CostOfGoodsAndServicesSold", "GrossProfit",
   "OperatingIncomeLoss", "NetIncomeLoss", "IncomeTaxExpenseBenefit",
   "EarningsPerShareBasic", "EarningsPerShareDiluted",
   "NetCashProvidedByUsedInOperatingActivities",
   "NetCashProvidedByUsedInInvestingActivities",
   "NetCashProvidedByUsedInFinancingActivities",
   "WeightedAverageNumberOfSharesOutstandingBasic",
   "WeightedAverageNumberOfSharesOutstandingDiluted",
   "CommonStockSharesOutstanding"}

REQUIRED_TOP_KEYS == {"cik", "entityName", "facts"}

REQUIRED_DATAPOINT_FIELDS == {"end", "val", "accn", "fy", "fp", "form", "filed"}

\* FORM_PRIORITY.get(form, DEFAULT_FORM_PRIORITY)
FormPriority(form) ==
  CASE form = "10-K"   -> 0
    [] form = "10-K/A" -> 1
    [] form = "20-F"   -> 2
    [] form = "20-F/A" -> 3
    [] form = "10-Q"   -> 4
    [] form = "10-Q/A" -> 5
    [] form = "8-K"    -> 6
    [] form = "8-K/A"  -> 7
    [] OTHER           -> DEFAULT_FORM_PRIORITY

\* ------------------------------------------------------------------------
\* Ranker: dedup_rank_facts
\* ------------------------------------------------------------------------

\* the dict key of a fact's group
GroupKey(f) ==
  <<f.taxonomy, f.concept, f.unit, f.start_date, f.end_date, f.fy, f.fp>>

SortKeyPlainPriority(f) == <<f.filed_date, FormPriority(f.form)>>

\* the key of indices.sort: (filed_date, -priority)
SortKey(f) == <<f.filed_date, -FormPriority(f.form)>>

KeyNotGreater(a, b) == a[1] < b[1] \/ (a[1] = b[1] /\ a[2] <= b[2])

\* Python's tuple order on two sort keys: a < b
KeyLess(a, b) == a[1] < b[1] \/ (a[1] = b[1] /\ a[2] < b[2])

\* Insert index i into a list of indices sorted with reverse=True: the sort
\* is stable, so i (which comes later in the input than every index already
\* in the list) goes behind every index whose key is not smaller.
RECURSIVE InsertDesc(_, _, _)
InsertDesc(facts, i, sorted) ==
  IF sorted = <<>> THEN <<i>>
  ELSE IF KeyLess(SortKey(facts[Head(sorted)]), SortKey(facts[i]))
       THEN <<i>> \o sorted
       ELSE <<Head(sorted)>> \o InsertDesc(facts, i, Tail(sorted))

\* indices.sort(key=..., reverse=True) for the indices of one group, which
\* groups[key] lists in ascending order
RECURSIVE SortDesc(_, _, _)
SortDesc(facts, indices, sorted) ==
  IF indices = <<>> THEN sorted
  ELSE SortDesc(facts, Tail(indices), InsertDesc(facts, Head(indices), sorted))

\* groups[key]: the indices of the facts with that key, ascending
RECURSIVE GroupIndices(_, _, _)
GroupIndices(facts, key, from) ==
  IF from > Len(facts) THEN <<>>
  ELSE IF GroupKey(facts[from]) = key
       THEN <<from>> \o GroupIndices(facts, key, from + 1)
       ELSE GroupIndices(facts, key, from + 1)

RECURSIVE RankInFromZero(_, _)
RankInFromZero(sorted, i) ==
  IF Head(sorted) = i THEN 0 ELSE 1 + RankInFromZero(Tail(sorted), i)

\* position of index i in a list of indices (enumerate(indices, 1))
RECURSIVE RankIn(_, _)
RankIn(sorted, i) ==
  IF Head(sorted) = i THEN 1 ELSE 1 + RankIn(Tail(sorted), i)

RankOf(facts, i) ==
  RankIn(SortDesc(facts, GroupIndices(facts, GroupKey(facts[i]), 1), <<>>), i)

\* the fact with its two rank fields set
Ranked(f, rank) ==
  [cik |-> f.cik, taxonomy |-> f.taxonomy, concept |-> f.concept,
   unit |-> f.unit, value |-> f.value, start_date |-> f.start_date,
   end_date |-> f.end_date, fy |-> f.fy, fp |-> f.fp, form |-> f.form,
   filed_date |-> f.filed_date, accession_number |-> f.accession_number,
   frame |-> f.frame, period_type |-> f.period_type,
   period_key |-> f.period_key,
   revision_rank |-> rank, is_preferred |-> (rank = 1)]

dedup_rank_facts_PreferredFirst(facts) ==
  LET ranked == [i \in 1..Len(facts) |-> Ranked(facts[i], RankOf(facts, i))]
  IN SelectSeq(ranked, LAMBDA f : f.is_preferred)
       \o SelectSeq(ranked, LAMBDA f : ~f.is_preferred)

dedup_rank_facts(facts) ==
  [i \in 1..Len(facts) |-> Ranked(facts[i], RankOf(facts, i))]

\* ------------------------------------------------------------------------
\* Validation
\* ------------------------------------------------------------------------

Digits == {"0", "1", "2", "3", "4", "5", "6", "7", "8", "9"}

\* str.strip(): drop leading and trailing whitespace
RECURSIVE LStrip(_)
LStrip(s) == IF s # <<>> /\ Head(s) = " " THEN LStrip(Tail(s)) ELSE s

RECURSIVE RStrip(_)
RStrip(s) ==
  IF s # <<>> /\ s[Len(s)] = " " THEN RStrip(SubSeq(s, 1, Len(s) - 1)) ELSE s

Strip(s) == RStrip(LStrip(s))

\* str.isdigit(): non-empty and every character a digit
IsDigit(s) == s # <<>> /\ \A k \in 1..Len(s) : s[k] \in Digits

\* int(text) for a text of digits, as the decimal digits of the result:
\* leading zeros do not survive
RECURSIVE IntOfDigits(_)
IntOfDigits(s) ==
  IF Len(s) > 1 /\ Head(s) = "0" THEN IntOfDigits(Tail(s)) ELSE s

\* the value of data["cik"] after validate_top_level, or the exception
\* raised: a cik is [t, neg, s] with s the decimal digits of an int (neg its
\* sign), the characters of a str, or unused
CoerceCik(cik) ==
  IF cik.t = "str"
  THEN IF IsDigit(Strip(cik.s))
       THEN [err |-> "", cik |-> [t |-> "int", neg |-> FALSE,
                                  s |-> IntOfDigits(Strip(cik.s))]]
       ELSE [err |-> "ValueError", cik |-> cik]
  ELSE IF cik.t \in {"int", "bool"}
       THEN [err |-> "", cik |-> cik]
       ELSE [err |-> "TypeError", cik |-> cik]

\* validate_top_level: the exception it raises ("" for none) and the document
\* with its cik coerced
validate_top_level(data) ==
  IF data.t # "dict"
  THEN [err |-> "AttributeError", data |-> data]
  ELSE IF ~(REQUIRED_TOP_KEYS \subseteq data.keys)
  THEN [err |-> "ValueError", data |-> data]
  ELSE LET c == CoerceCik(data.cik)
           d == [data EXCEPT !.cik = c.cik]
       IN IF c.err # "" THEN [err |-> c.err, data |-> data]
          ELSE IF data.entityName.t # "str" \/ Strip(data.entityName.s) = <<>>
               THEN [err |-> "ValueError", data |-> d]
          ELSE IF data.facts.t # "dict"
               THEN [err |-> "TypeError", data |-> d]
          ELSE [err |-> "", data |-> d]

\* validate_datapoint raises ValueError when a required field is missing
validate_datapoint(dp) ==
  IF REQUIRED_DATAPOINT_FIELDS \subseteq dp.keys THEN "" ELSE "ValueError"

\* ------------------------------------------------------------------------
\* Derived fields
\* ------------------------------------------------------------------------

\* str(cik): the decimal text of an int, "True"/"False" of a bool
StrOfCik(cik) ==
  IF cik.t = "bool"
  THEN IF cik.neg THEN <<"F", "a", "l", "s", "e">> ELSE <<"T", "r", "u", "e">>
  ELSE IF cik.neg THEN <<"-">> \o cik.s ELSE cik.s

RECURSIVE Zeros(_)
Zeros(n) == IF n <= 0 THEN <<>> ELSE <<"0">> \o Zeros(n - 1)

\* str.zfill(width): pad with zeros on the left, after a leading sign
ZFill(s, width) ==
  IF Len(s) >= width THEN s
  ELSE IF s # <<>> /\ Head(s) \in {"+", "-"}
       THEN <<Head(s)>> \o Zeros(width - Len(s)) \o Tail(s)
       ELSE Zeros(width - Len(s)) \o s

\* str(data["cik"]).zfill(10)
CikStr(cik) == ZFill(StrOfCik(cik), CIK_WIDTH)

\* truthiness of a date string or None
Truthy(d) == d > 0

compute_period_type_NotNone(start_date) ==
  IF start_date # NoneDate THEN "duration" ELSE "instant"

compute_period_type(start_date) ==
  IF Truthy(start_date) THEN "duration" ELSE "instant"

\* truthiness of a raw fy: a non-zero int or a (non-empty) string
FyTruthy(fy) == (fy.t = "int" /\ fy.n # 0) \/ fy.t = "str"

\* truthiness of a raw fp: a non-empty string
FpTruthy(fp) == fp.t = "str" /\ fp.s # ""

\* compute_period_key: the parts of the formatted key
compute_period_key(fy, fp, start_date, end_date) ==
  IF FyTruthy(fy) /\ FpTruthy(fp)
  THEN [kind |-> "fy-fp", fy |-> fy.n, fp |-> fp.s,
        start_date |-> 0, end_date |-> 0]
  ELSE IF Truthy(start_date)
       THEN [kind |-> "start:end", fy |-> 0, fp |-> "",
             start_date |-> start_date, end_date |-> end_date]
       ELSE [kind |-> "end", fy |-> 0, fp |-> "",
             start_date |-> 0, end_date |-> end_date]

\* ------------------------------------------------------------------------
\* Extractor: extract_from_file
\* ------------------------------------------------------------------------

FloatOfTextAsNan(val) ==
  CASE val.t = "num" -> [err |-> "", value |-> [t |-> "fin", n |-> val.n]]
    [] val.t = "inf" -> [err |-> "", value |-> [t |-> "inf", n |-> 0]]
    [] OTHER         -> [err |-> "", value |-> [t |-> "nan", n |-> 0]]

\* float(dp["val"]): the float, or the exception the code turns into a
\* ValueError.  A raw val is [t, n]: a number ("num"), a text or literal that
\* float() reads as infinity ("inf") or as NaN ("nan"), any other text
\* ("text") or null.
FloatOf(val) ==
  CASE val.t = "num" -> [err |-> "", value |-> [t |-> "fin", n |-> val.n]]
    [] val.t = "inf" -> [err |-> "", value |-> [t |-> "inf", n |-> 0]]
    [] val.t = "nan" -> [err |-> "", value |-> [t |-> "nan", n |-> 0]]
    [] OTHER         -> [err |-> "ValueError", value |-> [t |-> "nan", n |-> 0]]

\* dp.get("start", "")
StartOf(dp) ==
  IF "start" \in dp.keys
  THEN (IF dp.start.t = "null" THEN NoneDate ELSE dp.start.d)
  ELSE 0

\* dp.get("frame", "")
FrameOf(dp) == IF "frame" \in dp.keys THEN dp.frame ELSE [t |-> "str", s |-> ""]

\* fy if isinstance(fy, int) else None
StoredFy(fy) ==
  IF fy.t = "int" THEN [t |-> "int", n |-> fy.n] ELSE [t |-> "null", n |-> 0]

\* fp if isinstance(fp, str) else ""
StoredFp(fp) == IF fp.t = "str" THEN fp.s ELSE ""

\* the row facts_rows.append() adds for an accepted datapoint; the rank
\* fields are not set yet (0 / FALSE stand for the missing keys)
FactRow(cik_str, taxonomy, concept_name, unit_name, dp, val) ==
  [cik |-> cik_str, taxonomy |-> taxonomy, concept |-> concept_name,
   unit |-> unit_name, value |-> val,
   start_date |-> StartOf(dp), end_date |-> dp.end,
   fy |-> StoredFy(dp.fy), fp |-> StoredFp(dp.fp),
   form |-> dp.form, filed_date |-> dp.filed, accession_number |-> dp.accn,
   frame |-> FrameOf(dp),
   period_type |-> compute_period_type(StartOf(dp)),
   period_key |-> compute_period_key(dp.fy, dp.fp, StartOf(dp), dp.end),
   revision_rank |-> 0, is_preferred |-> FALSE]

\* concepts[key] = value on a dict held as a function
DictPut(d, key, value) ==
  [k \in DOMAIN d \cup {key} |-> IF k = key THEN value ELSE d[k]]

\* dict.update(other)
DictUpdate(d, other) ==
  [k \in DOMAIN d \cup DOMAIN other |->
     IF k \in DOMAIN other THEN other[k] ELSE d[k]]

EmptyDict == [k \in {} |-> <<"", "">>]

\* the loop over the datapoints of one unit (lines 383-421); acc carries the
\* exception raised so far ("" for none) and the three results
RECURSIVE ExtractDatapoints(_, _, _, _, _, _, _)
ExtractDatapoints(cik_str, taxonomy, concept_name, unit_name, dps, partial, acc) ==
  IF acc.err # "" \/ dps = <<>> THEN acc
  ELSE LET dp == Head(dps)
           rest == Tail(dps)
       IN IF dp.t # "dict"
          THEN [acc EXCEPT !.err = "AttributeError"]
          ELSE IF partial /\ ~(REQUIRED_DATAPOINT_FIELDS \subseteq dp.keys)
          THEN ExtractDatapoints(cik_str, taxonomy, concept_name, unit_name,
                                 rest, partial, acc)
          ELSE IF validate_datapoint(dp) # ""
          THEN [acc EXCEPT !.err = validate_datapoint(dp)]
          ELSE IF FloatOf(dp.val).err # ""
          THEN [acc EXCEPT !.err = FloatOf(dp.val).err]
          ELSE ExtractDatapoints(cik_str, taxonomy, concept_name, unit_name,
                 rest, partial,
                 [acc EXCEPT
                    !.facts = Append(@, FactRow(cik_str, taxonomy, concept_name,
                                        unit_name, dp, FloatOf(dp.val).value)),
                    !.filings = @ \cup {<<cik_str, dp.accn, dp.form, dp.filed>>}])

\* the loop over the units of one concept (lines 374-381)
RECURSIVE ExtractUnits(_, _, _, _, _, _)
ExtractUnits(cik_str, taxonomy, concept_name, units, partial, acc) ==
  IF acc.err # "" \/ units = <<>> THEN acc
  ELSE LET u == Head(units)
       IN IF u.t # "list"
          THEN IF partial
               THEN ExtractUnits(cik_str, taxonomy, concept_name, Tail(units),
                                 partial, acc)
               ELSE [acc EXCEPT !.err = "TypeError"]
          ELSE ExtractUnits(cik_str, taxonomy, concept_name, Tail(units), partial,
                 ExtractDatapoints(cik_str, taxonomy, concept_name, u.name,
                                   u.dps, partial, acc))

\* the loop over the concepts of one taxonomy (lines 352-372)
RECURSIVE ExtractConcepts(_, _, _, _, _)
ExtractConcepts(cik_str, taxonomy, cons, partial, acc) ==
  IF acc.err # "" \/ cons = <<>> THEN acc
  ELSE LET c == Head(cons)
           reg == [acc EXCEPT !.concepts =
                     DictPut(@, <<taxonomy, c.name>>, <<c.label, c.description>>)]
       IN IF c.t # "dict"
          THEN IF partial
               THEN ExtractConcepts(cik_str, taxonomy, Tail(cons), partial, acc)
               ELSE [acc EXCEPT !.err = "TypeError"]
          ELSE IF c.units.t = "absent"
          THEN IF partial
               THEN ExtractConcepts(cik_str, taxonomy, Tail(cons), partial, reg)
               ELSE [reg EXCEPT !.err = "ValueError"]
          ELSE IF c.units.t # "dict"
          THEN IF partial
               THEN ExtractConcepts(cik_str, taxonomy, Tail(cons), partial, reg)
               ELSE [reg EXCEPT !.err = "TypeError"]
          ELSE ExtractConcepts(cik_str, taxonomy, Tail(cons), partial,
                 ExtractUnits(cik_str, taxonomy, c.name, c.units.items,
                              partial, reg))

\* the loop over the taxonomies (lines 343-350)
RECURSIVE ExtractTaxonomies(_, _, _, _)
ExtractTaxonomies(cik_str, taxs, partial, acc) ==
  IF acc.err # "" \/ taxs = <<>> THEN acc
  ELSE LET x == Head(taxs)
       IN IF x.t # "dict"
          THEN IF partial
               THEN ExtractTaxonomies(cik_str, Tail(taxs), partial, acc)
               ELSE [acc EXCEPT !.err = "TypeError"]
          ELSE ExtractTaxonomies(cik_str, Tail(taxs), partial,
                 ExtractConcepts(cik_str, x.name, x.items, partial, acc))

\* extract_from_file(data, filepath, partial): the exception raised ("" for
\* none), facts_rows, concepts and filings
extract_from_file(data, partial) ==
  ExtractTaxonomies(CikStr(data.cik), data.facts.items, partial,
    [err |-> "", facts |-> <<>>, concepts |-> EmptyDict, filings |-> {}])

\* ------------------------------------------------------------------------
\* Sentence builder: build_rag_sentences
\* ------------------------------------------------------------------------

\* concepts.get((taxonomy, concept), ("", ""))[0], falling back to the
\* concept name when empty
LabelOf(f, concepts) ==
  LET k == <<f.taxonomy, f.concept>>
      label == IF k \in DOMAIN concepts THEN concepts[k][1] ELSE ""
  IN IF label = "" THEN f.concept ELSE label

\* val == int(val): int() raises OverflowError on an infinity and ValueError
\* on a NaN
IntOfFloatErr(value) ==
  CASE value.t = "inf" -> "OverflowError"
    [] value.t = "nan" -> "ValueError"
    [] OTHER           -> ""

\* the period phrase of the sentence
PeriodPhrase(f) ==
  IF f.period_type = "duration" /\ Truthy(f.start_date)
  THEN <<"for period", f.start_date, "to", f.end_date>>
  ELSE <<"as of", f.end_date>>

\* the row rows.append() adds for a preferred Tier-1 fact
RagRow(f, entity_name, concepts) ==
  [cik |-> f.cik, entity_name |-> entity_name, taxonomy |-> f.taxonomy,
   concept |-> f.concept, label |-> LabelOf(f, concepts), unit |-> f.unit,
   value |-> f.value, end_date |-> f.end_date, start_date |-> f.start_date,
   period_type |-> f.period_type, period_key |-> f.period_key,
   fy |-> f.fy, fp |-> f.fp, form |-> f.form, filed_date |-> f.filed_date,
   accession_number |-> f.accession_number,
   sentence |-> <<entity_name, "reported", LabelOf(f, concepts), "=",
                  f.value.n, f.unit, PeriodPhrase(f), "Form", f.form,
                  "filed", f.filed_date, "accession", f.accession_number>>]

\* build_rag_sentences: the exception raised ("" for none) and the rows
RECURSIVE BuildRag(_, _, _, _)
BuildRag(facts, entity_name, concepts, acc) ==
  IF acc.err # "" \/ facts = <<>> THEN acc
  ELSE LET f == Head(facts)
       IN IF ~f.is_preferred \/ f.concept \notin TIER1_CONCEPTS
          THEN BuildRag(Tail(facts), entity_name, concepts, acc)
          ELSE IF IntOfFloatErr(f.value) # ""
          THEN [acc EXCEPT !.err = IntOfFloatErr(f.value)]
          ELSE BuildRag(Tail(facts), entity_name, concepts,
                 [acc EXCEPT !.rows = Append(@, RagRow(f, entity_name, concepts))])

build_rag_sentences(facts, entity_name, concepts) ==
  BuildRag(facts, entity_name, concepts, [err |-> "", rows |-> <<>>])

\* ------------------------------------------------------------------------
\* Arrow table helper: dicts_to_table with FACTS_SCHEMA
\* ------------------------------------------------------------------------

\* pa.table(columns, schema=FACTS_SCHEMA) raises when a value does not have
\* the column's type.  Of the string columns the model types frame; a None is
\* a null and accepted; float64 holds infinities and NaNs.
dicts_to_table(rows) ==
  IF \E k \in 1..Len(rows) : rows[k].frame.t # "str"
  THEN "ArrowTypeError" ELSE ""

\* ------------------------------------------------------------------------
\* Driver: the body of the per-file try block of run (lines 574-627)
\* ------------------------------------------------------------------------

MaxFiledLast(facts, best) ==
  IF facts = <<>> THEN best ELSE facts[Len(facts)].filed_date

\* max((f["filed_date"] for f in facts if f["filed_date"]), default="")
RECURSIVE MaxFiled(_, _)
MaxFiled(facts, best) ==
  IF facts = <<>> THEN best
  ELSE MaxFiled(Tail(facts),
         IF Truthy(Head(facts).filed_date) /\ Head(facts).filed_date > best
         THEN Head(facts).filed_date ELSE best)

NoEffect(err) ==
  [err |-> err, partial |-> FALSE, entity |-> <<>>, concepts |-> EmptyDict,
   filings |-> {}, batch |-> <<>>, rag |-> <<>>]

\* What the try block does for a file of at least MIN_FILE_SIZE_BYTES: the
\* exception that ends it ("" for none) and what it had added by then to
\* entity_rows, all_concepts, all_filings, the facts file and rag_rows.
\* file.parse says how the text loads: "strict" (json.loads returns
\* file.doc), "repair" (json.loads fails, repair_truncated_json returns
\* file.doc) or "fail" (both fail and the JSONDecodeError is re-raised).
TryBody(file) ==
  IF file.parse = "fail" THEN NoEffect("JSONDecodeError")
  ELSE
  LET partial == file.parse = "repair"
      v == validate_top_level(file.doc)
  IN IF v.err # "" THEN NoEffect(v.err)
  ELSE
  LET x == extract_from_file(v.data, partial)
  IN IF x.err # "" THEN NoEffect(x.err)
  ELSE
  LET facts == IF x.facts # <<>> THEN dedup_rank_facts(x.facts) ELSE x.facts
      entity == [cik |-> CikStr(v.data.cik),
                 entity_name |-> v.data.entityName.s,
                 last_seen_filing_date |-> MaxFiled(facts, 0),
                 snapshot_date |-> "today",
                 partial |-> partial]
      merged == [err |-> "", partial |-> partial, entity |-> <<entity>>,
                 concepts |-> x.concepts, filings |-> x.filings,
                 batch |-> <<>>, rag |-> <<>>]
      werr == IF facts # <<>> THEN dicts_to_table(facts) ELSE ""
      rag == build_rag_sentences(facts, v.data.entityName.s, x.concepts)
  IN IF werr # "" THEN [merged EXCEPT !.err = werr]
     ELSE IF rag.err # "" THEN [merged EXCEPT !.err = rag.err, !.batch = facts]
     ELSE [merged EXCEPT !.batch = facts, !.rag = rag.rows]

\* ------------------------------------------------------------------------
\* Input documents
\* ------------------------------------------------------------------------

Num(n) == [t |-> "num", n |-> n]

TextOf(s) == [t |-> "str", s |-> s]

IntCik(digits) == [t |-> "int", neg |-> FALSE, s |-> digits]

\* a datapoint with the seven required fields, fy 2022, fp "FY", end date 3
Datapoint(val, accn, form, filed) ==
  [t |-> "dict", keys |-> REQUIRED_DATAPOINT_FIELDS, end |-> 3, val |-> val,
   accn |-> accn, fy |-> [t |-> "int", n |-> 2022], fp |-> TextOf("FY"),
   form |-> form, filed |-> filed,
   start |-> [t |-> "str", d |-> 0], frame |-> TextOf("")]

\* a concept with one unit, USD
Concept(name, label, dps) ==
  [name |-> name, t |-> "dict", label |-> label, description |-> "",
   units |-> [t |-> "dict",
              items |-> <<[name |-> "USD", t |-> "list", dps |-> dps]>>]]

\* a document with one taxonomy, us-gaap
Doc(cik, concepts) ==
  [t |-> "dict", keys |-> REQUIRED_TOP_KEYS, cik |-> cik,
   entityName |-> TextOf(<<"A">>),
   facts |-> [t |-> "dict",
              items |-> <<[name |-> "us-gaap", t |-> "dict", items |-> concepts]>>]]

NoDoc == [t |-> "none"]

Parsed(doc) == [stat |-> "ok", size |-> 500, parse |-> "strict", doc |-> doc]

\* the strict-parse scenario: an amended 10-K filed after the 10-K
FileApple ==
  Parsed(Doc(IntCik(<<"3", "2", "0", "1", "9", "3">>),
    <<Concept("Assets", "Assets",
        <<Datapoint(Num(10), "A1", "10-K", 1),
          Datapoint(Num(11), "A2", "10-K/A", 2)>>),
      Concept("Goodwill", "Goodwill", <<Datapoint(Num(5), "A1", "10-K", 1)>>)>>))

\* the tie-break scenario, in a second file of the same company whose cik is
\* a numeric string
FileTie ==
  Parsed(Doc([t |-> "str", neg |-> FALSE,
              s |-> <<" ", "3", "2", "0", "1", "9", "3">>],
    <<Concept("Assets", "Total assets",
        <<Datapoint(Num(12), "A3", "8-K", 2),
          Datapoint(Num(13), "A4", "10-K", 2)>>)>>))

\* a value that float() reads as infinity
FileInf ==
  Parsed(Doc(IntCik(<<"7">>),
    <<Concept("Assets", "Assets (inf)",
        <<Datapoint([t |-> "inf", n |-> 0], "A5", "10-K", 1)>>)>>))

\* a frame that is a JSON number
FileFrame ==
  Parsed(Doc(IntCik(<<"8">>),
    <<Concept("Assets", "Assets (frame)",
        <<[Datapoint(Num(14), "A6", "10-K", 1) EXCEPT
             !.keys = @ \cup {"frame"}, !.frame = [t |-> "int", s |-> "7"]]>>)>>))

\* a company with a negative cik and no facts
FileNeg ==
  Parsed([Doc([t |-> "int", neg |-> TRUE, s |-> <<"5">>], <<>>) EXCEPT
            !.facts = [t |-> "dict", items |-> <<>>]])

\* a truncated file that repair recovers: the last datapoint lost its tail,
\* the last concept its units; the cik has eleven digits
FileTrunc ==
  [stat |-> "ok", size |-> 500, parse |-> "repair",
   doc |-> Doc(IntCik(<<"1", "2", "3", "4", "5", "6", "7", "8", "9", "0", "1">>),
     <<Concept("Revenues", "Revenues",
         <<Datapoint(Num(20), "A7", "10-Q", 1),
           [Datapoint(Num(21), "A8", "10-Q", 2) EXCEPT !.keys = {"end", "val"}]>>),
       [Concept("Liabilities", "Liabilities", <<>>) EXCEPT
          !.units = [t |-> "absent", items |-> <<>>]]>>)]

\* a file neither json.loads nor repair can read
FileGarbage == [stat |-> "ok", size |-> 500, parse |-> "fail", doc |-> NoDoc]

\* a file below the size floor
FileSmall == [stat |-> "ok", size |-> 50, parse |-> "fail", doc |-> NoDoc]

\* a directory entry whose stat() raises (a dangling symbolic link)
FileBroken == [stat |-> "broken", size |-> 0, parse |-> "fail", doc |-> NoDoc]

FileCatalog ==
  {FileApple, FileTie, FileInf, FileFrame, FileNeg, FileTrunc, FileGarbage,
   FileSmall, FileBroken}

\* the forms a datapoint's optional start takes: absent, "", null, a date
StartVariants ==
  {[has |-> FALSE, v |-> [t |-> "str", d |-> 0]],
   [has |-> TRUE, v |-> [t |-> "str", d |-> 0]],
   [has |-> TRUE, v |-> [t |-> "null", d |-> 0]],
   [has |-> TRUE, v |-> [t |-> "str", d |-> 1]]}

\* the forms its fy takes: a year, zero, null, a year written as a string
FyVariants ==
  {[t |-> "int", n |-> 2022], [t |-> "int", n |-> 0], [t |-> "null", n |-> 0],
   [t |-> "str", n |-> 2022]}

\* the forms its fp takes: a period, "", null
FpVariants == {TextOf("FY"), TextOf(""), [t |-> "null", s |-> ""]}

\* the forms its val takes besides a number: a text float() rejects, null,
\* an infinity, a NaN
ValVariants ==
  {[t |-> "text", n |-> 0], [t |-> "null", n |-> 0], [t |-> "inf", n |-> 0],
   [t |-> "nan", n |-> 0]}

\* the second datapoint of a variant document: accession A9 again, with
\* another form and filing date than the first one
SecondDatapoint == Datapoint(Num(31), "A9", "10-K", 2)

DatapointVariants ==
  {[SecondDatapoint EXCEPT
      !.keys = IF st.has THEN @ \cup {"start"} ELSE @,
      !.start = st.v, !.fy = fy, !.fp = fp] :
     st \in StartVariants, fy \in FyVariants, fp \in FpVariants}
  \cup {[SecondDatapoint EXCEPT !.val = v] : v \in ValVariants}
  \cup {[SecondDatapoint EXCEPT !.accn = "A8"]}

\* a file of company 9 whose concept Revenues holds a plain datapoint and a
\* variant one; the text loads strictly or after repair
DocFile(dp, parse) ==
  [stat |-> "ok", size |-> 500, parse |-> parse,
   doc |-> Doc(IntCik(<<"9">>),
             <<Concept("Revenues", "Revenues",
                 <<Datapoint(Num(30), "A9", "10-Q", 1), dp>>)>>)]

DocFiles ==
  {DocFile(dp, parse) : dp \in DatapointVariants, parse \in {"strict", "repair"}}

\* a file of company 9 whose only datapoint has an empty filed date
FileUndated ==
  Parsed(Doc(IntCik(<<"9">>),
    <<Concept("Revenues", "Revenues", <<Datapoint(Num(32), "A9", "10-K", 0)>>)>>))

\* a file whose cik is the JSON literal true
FileBoolCik ==
  Parsed(Doc([t |-> "bool", neg |-> FALSE, s |-> <<>>],
    <<Concept("Revenues", "Revenues", <<Datapoint(Num(33), "A9", "10-K", 1)>>)>>))

\* the shape errors below the top level, each next to well-formed siblings
\* in a document of company 9 with the concepts Assets and Revenues:
\* a taxonomy that is a list
ShapeTaxonomy ==
  [Doc(IntCik(<<"9">>),
     <<Concept("Assets", "Assets", <<Datapoint(Num(40), "A7", "10-K", 1)>>),
       Concept("Revenues", "Revenues", <<Datapoint(Num(41), "A9", "10-K", 2)>>)>>)
   EXCEPT !.facts.items = <<[name |-> "dei", t |-> "list", items |-> <<>>]>> \o @]

\* the concepts that hold a shape error: a concept that is a string, a
\* concept without units, units that are a list, a unit whose datapoints are
\* an object, a datapoint that is a number, a datapoint without its fields
ShapeConcepts ==
  {[Concept("Goodwill", "Goodwill", <<>>) EXCEPT !.t = "str"],
   [Concept("Goodwill", "Goodwill", <<>>) EXCEPT
      !.units = [t |-> "absent", items |-> <<>>]],
   [Concept("Goodwill", "Goodwill", <<>>) EXCEPT
      !.units = [t |-> "list", items |-> <<>>]],
   [Concept("Goodwill", "Goodwill", <<>>) EXCEPT
      !.units.items = <<[name |-> "USD", t |-> "dict", dps |-> <<>>],
                        [name |-> "EUR", t |-> "list",
                         dps |-> <<Datapoint(Num(42), "A8", "10-K", 1)>>]>>],
   Concept("Goodwill", "Goodwill",
     <<Datapoint(Num(43), "A8", "10-K", 1), [t |-> "num"],
       Datapoint(Num(44), "A8", "10-Q", 2)>>),
   Concept("Goodwill", "Goodwill",
     <<Datapoint(Num(43), "A8", "10-K", 1),
       [Datapoint(Num(45), "A8", "10-K", 2) EXCEPT !.keys = {"end", "val"}],
       Datapoint(Num(44), "A8", "10-Q", 2)>>)}

ShapeDocs ==
  {ShapeTaxonomy}
    \cup {Doc(IntCik(<<"9">>),
            <<Concept("Assets", "Assets", <<Datapoint(Num(40), "A7", "10-K", 1)>>),
              c,
              Concept("Revenues", "Revenues",
                <<Datapoint(Num(41), "A9", "10-K", 2)>>)>>) : c \in ShapeConcepts}

\* each of them in a text that loads strictly and in one that needs repair
ShapeFiles ==
  {[stat |-> "ok", size |-> 500, parse |-> parse, doc |-> doc] :
     doc \in ShapeDocs, parse \in {"strict", "repair"}}

\* the document the top-level variants are made from
PlainDoc ==
  Doc(IntCik(<<"9">>),
    <<Concept("Revenues", "Revenues", <<Datapoint(Num(34), "A9", "10-K", 1)>>)>>)

\* documents whose cik is a float, null, a list, a non-numeric string or a
\* numeric string in spaces, whose entityName is empty, blank or null, or
\* whose facts is a list
TopLevelDocs ==
  {[PlainDoc EXCEPT !.cik = c] :
     c \in {[t |-> "float", neg |-> FALSE, s |-> <<"9">>],
            [t |-> "null", neg |-> FALSE, s |-> <<>>],
            [t |-> "list", neg |-> FALSE, s |-> <<>>],
            [t |-> "str", neg |-> FALSE, s |-> <<"9", "a">>],
            [t |-> "str", neg |-> FALSE, s |-> <<" ", "0", "9", " ">>]}}
    \cup {[PlainDoc EXCEPT !.entityName = e] :
            e \in {TextOf(<<>>), TextOf(<<" ">>), [t |-> "null", s |-> <<>>]}}
    \cup {[PlainDoc EXCEPT !.facts = [t |-> "list", items |-> <<>>]]}

TopLevelFiles == {Parsed(doc) : doc \in TopLevelDocs}

VariantFiles ==
  DocFiles \cup ShapeFiles \cup TopLevelFiles \cup {FileUndated, FileBoolCik}

\* the sorted lists of input files the model runs on: up to MaxFiles files of
\* the catalog, or one variant file
InputDirs ==
  UNION {[1..n -> FileCatalog] : n \in 0..MaxFiles}
    \cup {<<f>> : f \in VariantFiles}

\* ------------------------------------------------------------------------
\* State of the driver: run
\* ------------------------------------------------------------------------

VARIABLES
  json_files,    \* sorted(input_dir.glob("CIK*.json")); a file's name is its index
  force,         \* the --force flag of the current run
  fail_fast,     \* the --fail-fast flag of the current run
  run_no,        \* number of the current run over the output directory
  pc,            \* position of the current run
  i,             \* index of the file the loop is at
  entity_rows,
  all_concepts,
  all_filings,
  rag_rows,
  counts,
  errors,
  facts_writer,  \* "none", "open" or "closed"
  pending,       \* what leaves the try/finally: "none", "exit1" or "raise"
  exit_code,     \* -1 while the run is going on
  disk,          \* the output files: the run that wrote each (0: absent) and its content
  outcomes,      \* history: what became of each file of the current run
  reads,         \* history: the files the current run has opened
  start_disk,    \* history: the output files as the current run found them
  rank_in,       \* SpecRank: the fact list handed to dedup_rank_facts
  rank_out,      \* SpecRank: the list it returned
  raw,           \* SpecRepair: the text handed to repair_truncated_json
  pos,           \* the number of characters its loop has consumed
  stack,
  last_good_pos,
  stack_at_good,
  in_string,
  escape_next,
  repaired,      \* the sealed text
  data           \* what the function returns; [t |-> "running"] before

vars ==
  <<json_files, force, fail_fast, run_no, pc, i, entity_rows, all_concepts,
    all_filings, rag_rows, counts, errors, facts_writer, pending, exit_code,
    disk, outcomes, reads, start_disk, rank_in, rank_out,
    raw, pos, stack, last_good_pos, stack_at_good, in_string, escape_next,
    repaired, data>>

\* the locals of repair_truncated_json
scanner ==
  <<raw, pos, stack, last_good_pos, stack_at_good, in_string, escape_next,
    repaired, data>>

\* repair_truncated_json is not running
ScannerIdle ==
  /\ raw = <<>>
  /\ pos = 0
  /\ stack = <<>>
  /\ last_good_pos = 0
  /\ stack_at_good = <<>>
  /\ in_string = FALSE
  /\ escape_next = FALSE
  /\ repaired = <<>>
  /\ data = [t |-> "running"]

locals == <<i, entity_rows, all_concepts, all_filings, rag_rows, counts,
            errors, facts_writer, pending>>

total == Len(json_files)

OutputNames ==
  {"facts", "entity_master", "concepts", "filings", "rag", "manifest"}

Absent == [run |-> 0, content |-> <<>>]

ZeroCounts == [ok |-> 0, repaired |-> 0, skipped_empty |-> 0, error |-> 0]

\* a process about to call run() on an empty output directory
Init ==
  /\ json_files \in InputDirs
  /\ force \in BOOLEAN
  /\ fail_fast \in BOOLEAN
  /\ run_no = 1
  /\ pc = "start"
  /\ i = 0
  /\ entity_rows = <<>>
  /\ all_concepts = EmptyDict
  /\ all_filings = {}
  /\ rag_rows = <<>>
  /\ counts = ZeroCounts
  /\ errors = <<>>
  /\ facts_writer = "none"
  /\ pending = "none"
  /\ exit_code = -1
  /\ disk = [f \in OutputNames |-> Absent]
  /\ outcomes = <<>>
  /\ reads = {}
  /\ start_disk = disk
  /\ rank_in = <<>>
  /\ rank_out = <<>>
  /\ ScannerIdle

GateIgnoresForce == disk["facts"].run # 0

\* line 524: not force and facts_path.exists()
GateHolds == ~force /\ disk["facts"].run # 0

\* lines 524-526: the resumability gate returns
GateSkip ==
  /\ pc = "start"
  /\ GateHolds
  /\ pc' = "exited"
  /\ exit_code' = 0
  /\ UNCHANGED <<json_files, force, fail_fast, run_no, locals, disk,
                 outcomes, reads, start_disk, rank_in, rank_out, scanner>>

\* lines 528-533: no input file, sys.exit(1)
NoInput ==
  /\ pc = "start"
  /\ ~GateHolds
  /\ total = 0
  /\ pc' = "exited"
  /\ exit_code' = 1
  /\ UNCHANGED <<json_files, force, fail_fast, run_no, locals, disk,
                 outcomes, reads, start_disk, rank_in, rank_out, scanner>>

\* lines 535-554: the accumulators are set up and the facts writer is
\* opened, which creates or truncates the facts file
OpenWriter ==
  /\ pc = "start"
  /\ ~GateHolds
  /\ total > 0
  /\ facts_writer' = "open"
  /\ disk' = [disk EXCEPT !["facts"] = [run |-> run_no, content |-> <<>>]]
  /\ pc' = "loop"
  /\ i' = 1
  /\ UNCHANGED <<json_files, force, fail_fast, run_no, entity_rows,
                 all_concepts, all_filings, rag_rows, counts, errors,
                 pending, exit_code, outcomes, reads, start_disk, rank_in, rank_out, scanner>>

\* the loop goes on to the next file, or ends and enters the finally block
Advance ==
  IF i = total THEN pc' = "finally" /\ i' = i ELSE pc' = "loop" /\ i' = i + 1

\* line 569: filepath.stat() raises; the exception is outside the inner try
\* and leaves the loop
StatRaises ==
  /\ pc = "loop"
  /\ json_files[i].stat = "broken"
  /\ pending' = "raise"
  /\ pc' = "finally"
  /\ outcomes' = Append(outcomes, "escaped")
  /\ UNCHANGED <<json_files, force, fail_fast, run_no, i, entity_rows,
                 all_concepts, all_filings, rag_rows, counts, errors,
                 facts_writer, exit_code, disk, reads, start_disk, rank_in, rank_out, scanner>>

\* lines 570-572: a file below the size floor
SkipEmptyOpensFile ==
  /\ pc = "loop"
  /\ json_files[i].stat = "ok"
  /\ json_files[i].size < MIN_FILE_SIZE_BYTES
  /\ counts' = [counts EXCEPT !.skipped_empty = @ + 1]
  /\ outcomes' = Append(outcomes, "skipped_empty")
  /\ reads' = reads \cup {i}
  /\ Advance
  /\ UNCHANGED <<json_files, force, fail_fast, run_no, entity_rows,
                 all_concepts, all_filings, rag_rows, errors, facts_writer,
                 pending, exit_code, disk, start_disk, rank_in, rank_out, scanner>>

SkipEmpty ==
  /\ pc = "loop"
  /\ json_files[i].stat = "ok"
  /\ json_files[i].size < MIN_FILE_SIZE_BYTES
  /\ counts' = [counts EXCEPT !.skipped_empty = @ + 1]
  /\ outcomes' = Append(outcomes, "skipped_empty")
  /\ Advance
  /\ UNCHANGED <<json_files, force, fail_fast, run_no, entity_rows,
                 all_concepts, all_filings, rag_rows, errors, facts_writer,
                 pending, exit_code, disk, reads, start_disk, rank_in, rank_out, scanner>>

\* what the try block does to the accumulators and the facts file
Merge(r) ==
  /\ entity_rows' = entity_rows \o r.entity
  /\ all_concepts' = DictUpdate(all_concepts, r.concepts)
  /\ all_filings' = all_filings \cup r.filings
  /\ disk' = [disk EXCEPT !["facts"].content = @ \o r.batch]
  /\ rag_rows' = rag_rows \o r.rag
  /\ reads' = reads \cup {i}

HandlerNeverExits == pending' = pending /\ Advance

\* lines 634-636: under --fail-fast the handler calls sys.exit(1), which
\* leaves the loop through the finally block
HandlerExit ==
  IF fail_fast
  THEN pending' = "exit1" /\ pc' = "finally" /\ i' = i
  ELSE pending' = pending /\ Advance

\* lines 574-627: the try block runs to its end
ProcessFile ==
  /\ pc = "loop"
  /\ json_files[i].stat = "ok"
  /\ json_files[i].size >= MIN_FILE_SIZE_BYTES
  /\ LET r == TryBody(json_files[i])
     IN /\ r.err = ""
        /\ Merge(r)
        /\ counts' = IF r.partial THEN [counts EXCEPT !.repaired = @ + 1]
                                  ELSE [counts EXCEPT !.ok = @ + 1]
        /\ outcomes' = Append(outcomes, IF r.partial THEN "repaired" ELSE "ok")
  /\ Advance
  /\ UNCHANGED <<json_files, force, fail_fast, run_no, errors, facts_writer,
                 pending, exit_code, start_disk, rank_in, rank_out, scanner>>

FileErrorUncounted ==
  /\ pc = "loop"
  /\ json_files[i].stat = "ok"
  /\ json_files[i].size >= MIN_FILE_SIZE_BYTES
  /\ LET r == TryBody(json_files[i])
     IN /\ r.err # ""
        /\ Merge(r)
        /\ errors' = Append(errors, <<i, r.err>>)
  /\ counts' = counts
  /\ outcomes' = Append(outcomes, "error")
  /\ HandlerExit
  /\ UNCHANGED <<json_files, force, fail_fast, run_no, facts_writer,
                 exit_code, start_disk, rank_in, rank_out, scanner>>

\* lines 629-636: the try block raises; the handler counts the file as an
\* error and, under --fail-fast, calls sys.exit(1)
FileError ==
  /\ pc = "loop"
  /\ json_files[i].stat = "ok"
  /\ json_files[i].size >= MIN_FILE_SIZE_BYTES
  /\ LET r == TryBody(json_files[i])
     IN /\ r.err # ""
        /\ Merge(r)
        /\ errors' = Append(errors, <<i, r.err>>)
  /\ counts' = [counts EXCEPT !.error = @ + 1]
  /\ outcomes' = Append(outcomes, "error")
  /\ HandlerExit
  /\ UNCHANGED <<json_files, force, fail_fast, run_no, facts_writer,
                 exit_code, start_disk, rank_in, rank_out, scanner>>

CloseWriterOnSuccessOnly ==
  /\ pc = "finally"
  /\ facts_writer' = IF pending = "none" THEN "closed" ELSE facts_writer
  /\ IF pending = "none"
     THEN pc' = "tables" /\ exit_code' = exit_code
     ELSE pc' = "exited" /\ exit_code' = 1
  /\ UNCHANGED <<json_files, force, fail_fast, run_no, i, entity_rows,
                 all_concepts, all_filings, rag_rows, counts, errors, pending,
                 disk, outcomes, reads, start_disk, rank_in, rank_out, scanner>>

\* lines 637-638: the finally block closes the writer; a pending SystemExit
\* or exception then ends the process with status 1
CloseWriter ==
  /\ pc = "finally"
  /\ facts_writer' = "closed"
  /\ IF pending = "none"
     THEN pc' = "tables" /\ exit_code' = exit_code
     ELSE pc' = "exited" /\ exit_code' = 1
  /\ UNCHANGED <<json_files, force, fail_fast, run_no, i, entity_rows,
                 all_concepts, all_filings, rag_rows, counts, errors, pending,
                 disk, outcomes, reads, start_disk, rank_in, rank_out, scanner>>

\* Python's order (by code point) on the characters a cik string is made of
CharOrder ==
  <<" ", "-", "0", "1", "2", "3", "4", "5", "6", "7", "8", "9",
    "F", "T", "a", "e", "l", "r", "s", "u">>

CharLess(a, b) ==
  \E m, n \in 1..Len(CharOrder) : CharOrder[m] = a /\ CharOrder[n] = b /\ m < n

\* str < str on character sequences: the first difference decides, a proper
\* prefix is smaller
RECURSIVE SeqLess(_, _)
SeqLess(a, b) ==
  IF b = <<>> THEN FALSE
  ELSE IF a = <<>> THEN TRUE
  ELSE IF Head(a) # Head(b) THEN CharLess(Head(a), Head(b))
  ELSE SeqLess(Tail(a), Tail(b))

\* Python's order on the taxonomy names, concept names, accession numbers and
\* form types of the input documents, smallest first
StrOrder ==
  <<"10-K", "10-K/A", "10-Q", "8-K",
    "A1", "A2", "A3", "A4", "A5", "A6", "A7", "A8", "A9",
    "Assets", "Goodwill", "Liabilities", "Revenues", "dei", "us-gaap">>

StrLess(a, b) ==
  \E m, n \in 1..Len(StrOrder) : StrOrder[m] = a /\ StrOrder[n] = b /\ m < n

\* tuple < tuple on the keys of all_concepts, (taxonomy, concept)
ConceptKeyLess(a, b) ==
  StrLess(a[1], b[1]) \/ (a[1] = b[1] /\ StrLess(a[2], b[2]))

\* tuple < tuple on the members of all_filings, (cik, accn, form, filed)
FilingLess(a, b) ==
  \/ SeqLess(a[1], b[1])
  \/ a[1] = b[1] /\ StrLess(a[2], b[2])
  \/ a[1] = b[1] /\ a[2] = b[2] /\ StrLess(a[3], b[3])
  \/ a[1] = b[1] /\ a[2] = b[2] /\ a[3] = b[3] /\ a[4] < b[4]

\* sorted(all_concepts.items()): the keys are distinct, so the keys decide
RECURSIVE SortedConceptKeys(_)
SortedConceptKeys(keys) ==
  IF keys = {} THEN <<>>
  ELSE LET least == CHOOSE k \in keys :
                      \A o \in keys \ {k} : ConceptKeyLess(k, o)
       IN <<least>> \o SortedConceptKeys(keys \ {least})

\* the members of all_filings, largest first
RECURSIVE FilingsDescending(_)
FilingsDescending(filings) ==
  IF filings = {} THEN <<>>
  ELSE LET most == CHOOSE f \in filings :
                     \A o \in filings \ {f} : FilingLess(o, f)
       IN <<most>> \o FilingsDescending(filings \ {most})

\* sorted(all_filings)
RECURSIVE SortedFilings(_)
SortedFilings(filings) ==
  IF filings = {} THEN <<>>
  ELSE LET least == CHOOSE f \in filings :
                      \A o \in filings \ {f} : FilingLess(f, o)
       IN <<least>> \o SortedFilings(filings \ {least})

\* lines 647-650: concept_rows
ConceptRows(concepts) ==
  LET keys == SortedConceptKeys(DOMAIN concepts)
  IN [n \in 1..Len(keys) |->
        [taxonomy |-> keys[n][1], concept |-> keys[n][2],
         label |-> concepts[keys[n]][1], description |-> concepts[keys[n]][2]]]

\* lines 656-659: filing_rows
FilingRows(filings) ==
  LET sorted == SortedFilings(filings)
  IN [n \in 1..Len(sorted) |->
        [cik |-> sorted[n][1], accession_number |-> sorted[n][2],
         form |-> sorted[n][3], filed_date |-> sorted[n][4]]]

\* lines 642-668: entity_master, concepts, filings and the RAG index
WriteTables ==
  /\ pc = "tables"
  /\ disk' = [disk EXCEPT
       !["entity_master"] = [run |-> run_no, content |-> entity_rows],
       !["concepts"] = [run |-> run_no, content |-> ConceptRows(all_concepts)],
       !["filings"] = [run |-> run_no, content |-> FilingRows(all_filings)],
       !["rag"] = [run |-> run_no, content |-> rag_rows]]
  /\ pc' = "manifest"
  /\ UNCHANGED <<json_files, force, fail_fast, run_no, locals, exit_code,
                 outcomes, reads, start_disk, rank_in, rank_out, scanner>>

\* lines 670-686: the manifest
WriteManifest ==
  /\ pc = "manifest"
  /\ disk' = [disk EXCEPT !["manifest"] = [run |-> run_no, content |->
       [total_files |-> total, processed_ok |-> counts.ok,
        repaired_truncated |-> counts.repaired,
        skipped_empty |-> counts.skipped_empty, errors |-> counts.error,
        entities |-> Len(entity_rows),
        unique_concepts |-> Cardinality(DOMAIN all_concepts),
        unique_filings |-> Cardinality(all_filings),
        rag_sentences |-> Len(rag_rows), failed_files |-> errors]]]
  /\ pc' = "finish"
  /\ UNCHANGED <<json_files, force, fail_fast, run_no, locals, exit_code,
                 outcomes, reads, start_disk, rank_in, rank_out, scanner>>

FinalStatusOffByOne == IF counts.error > 1 THEN 1 ELSE 0

\* lines 698-699: sys.exit(1) when a file was counted as an error, else the
\* function returns and the process ends with status 0
FinalStatus == IF counts.error > 0 THEN 1 ELSE 0

\* lines 688-699: the summary is logged and the run ends
Finish ==
  /\ pc = "finish"
  /\ exit_code' = FinalStatus
  /\ pc' = "exited"
  /\ UNCHANGED <<json_files, force, fail_fast, run_no, locals, disk,
                 outcomes, reads, start_disk, rank_in, rank_out, scanner>>

\* the pipeline is started again over the same directories
Rerun ==
  /\ pc = "exited"
  /\ run_no < MaxRuns
  /\ run_no' = run_no + 1
  /\ force' \in BOOLEAN
  /\ fail_fast' \in BOOLEAN
  /\ pc' = "start"
  /\ i' = 0
  /\ entity_rows' = <<>>
  /\ all_concepts' = EmptyDict
  /\ all_filings' = {}
  /\ rag_rows' = <<>>
  /\ counts' = ZeroCounts
  /\ errors' = <<>>
  /\ facts_writer' = "none"
  /\ pending' = "none"
  /\ exit_code' = -1
  /\ outcomes' = <<>>
  /\ reads' = {}
  /\ start_disk' = disk
  /\ UNCHANGED <<json_files, disk, rank_in, rank_out, scanner>>

Next ==
  \/ GateSkip
  \/ NoInput
  \/ OpenWriter
  \/ StatRaises
  \/ SkipEmpty
  \/ ProcessFile
  \/ FileError
  \/ CloseWriter
  \/ WriteTables
  \/ WriteManifest
  \/ Finish
  \/ Rerun

Spec == Init /\ [][Next]_vars

\* ------------------------------------------------------------------------
\* SpecRank: dedup_rank_facts applied to bounded fact lists
\* ------------------------------------------------------------------------

\* the fact rows of one company the ranker is tried on: two concepts, two
\* filed dates, a listed annual form, a listed current form, an unlisted form
RankFacts ==
  {FactRow(<<"0", "0", "0", "0", "0", "0", "0", "0", "0", "1">>, "us-gaap",
           c, "USD", Datapoint(Num(1), "A1", form, filed), [t |-> "fin", n |-> 1]) :
     c \in {"Assets", "Revenues"}, form \in {"10-K", "8-K", "S-1"},
     filed \in {1, 2}}

InitRank ==
  /\ rank_in \in UNION {[1..n -> RankFacts] : n \in 1..MaxFacts}
  /\ rank_out = <<>>
  /\ ScannerIdle
  /\ pc = "rank"
  /\ json_files = <<>>
  /\ force = FALSE
  /\ fail_fast = FALSE
  /\ run_no = 1
  /\ i = 0
  /\ entity_rows = <<>>
  /\ all_concepts = EmptyDict
  /\ all_filings = {}
  /\ rag_rows = <<>>
  /\ counts = ZeroCounts
  /\ errors = <<>>
  /\ facts_writer = "none"
  /\ pending = "none"
  /\ exit_code = -1
  /\ disk = [f \in OutputNames |-> Absent]
  /\ outcomes = <<>>
  /\ reads = {}
  /\ start_disk = disk

\* lines 596-597: dedup_rank_facts(facts) on a non-empty list
RankStep ==
  /\ pc = "rank"
  /\ rank_out' = dedup_rank_facts(rank_in)
  /\ pc' = "ranked"
  /\ UNCHANGED <<json_files, force, fail_fast, run_no, locals, exit_code,
                 disk, outcomes, reads, start_disk, rank_in, scanner>>

NextRank == RankStep

SpecRank == InitRank /\ [][NextRank]_vars

\* ------------------------------------------------------------------------
\* Truncated JSON repair: repair_truncated_json
\* ------------------------------------------------------------------------

\* The texts handed to repair_truncated_json, as sequences of characters.

\* a complete company document:
\*   {"cik":1,"entityName":"A","facts":{"g":{"R":[{"v":1},{"v":2}]}}}
TextCompany ==
  <<"{", "\"", "c", "i", "k", "\"", ":", "1", ",", "\"", "e", "n", "t", "i",
    "t", "y", "N", "a", "m", "e", "\"", ":", "\"", "A", "\"", ",", "\"", "f",
    "a", "c", "t", "s", "\"", ":", "{", "\"", "g", "\"", ":", "{", "\"", "R",
    "\"", ":", "[", "{", "\"", "v", "\"", ":", "1", "}", ",", "{", "\"", "v",
    "\"", ":", "2", "}", "]", "}", "}", "}">>

\* brackets, an escaped quote and an escaped backslash inside a string, then
\* more members:
\*   {"cik":1,"entityName":"a]\"}{\\","facts":{},"x":[1,[2],{"y":"[
TextStrings ==
  <<"{", "\"", "c", "i", "k", "\"", ":", "1", ",", "\"", "e", "n", "t", "i",
    "t", "y", "N", "a", "m", "e", "\"", ":", "\"", "a", "]", "\\", "\"", "}",
    "{", "\\", "\\", "\"", ",", "\"", "f", "a", "c", "t", "s", "\"", ":",
    "{", "}", ",", "\"", "x", "\"", ":", "[", "1", ",", "[", "2", "]", ",",
    "{", "\"", "y", "\"", ":", "\"", "[">>

\* a closer that matches nothing, followed by more brackets:
\*   {"cik":1,"entityName":"A","facts":{"g":[1]}]{"x":[2]}
TextStrayCloser ==
  <<"{", "\"", "c", "i", "k", "\"", ":", "1", ",", "\"", "e", "n", "t", "i",
    "t", "y", "N", "a", "m", "e", "\"", ":", "\"", "A", "\"", ",", "\"", "f",
    "a", "c", "t", "s", "\"", ":", "{", "\"", "g", "\"", ":", "[", "1", "]",
    "}", "]", "{", "\"", "x", "\"", ":", "[", "2", "]", "}">>

\* a top-level array followed by a stray character:
\*   [{"cik":1},{"entityName":"A"},{"facts":{}}]x
TextArray ==
  <<"[", "{", "\"", "c", "i", "k", "\"", ":", "1", "}", ",", "{", "\"", "e",
    "n", "t", "i", "t", "y", "N", "a", "m", "e", "\"", ":", "\"", "A", "\"",
    "}", ",", "{", "\"", "f", "a", "c", "t", "s", "\"", ":", "{", "}", "}",
    "]", "x">>

\* a member without its colon:
\*   {"cik":1,"entityName""A","facts":{"g":[1]},
TextNoColon ==
  <<"{", "\"", "c", "i", "k", "\"", ":", "1", ",", "\"", "e", "n", "t", "i",
    "t", "y", "N", "a", "m", "e", "\"", "\"", "A", "\"", ",", "\"", "f",
    "a", "c", "t", "s", "\"", ":", "{", "\"", "g", "\"", ":", "[", "1", "]",
    "}", ",">>

\* an object without entityName:
\*   {"cik":1,"facts":{"g":[1,2]},"e":[3
TextNoName ==
  <<"{", "\"", "c", "i", "k", "\"", ":", "1", ",", "\"", "f", "a", "c", "t",
    "s", "\"", ":", "{", "\"", "g", "\"", ":", "[", "1", ",", "2", "]", "}",
    ",", "\"", "e", "\"", ":", "[", "3">>

BaseTexts ==
  {TextCompany, TextStrings, TextStrayCloser, TextArray, TextNoColon, TextNoName}

\* every text cut off at every length, the whole text included
RawTexts == UNION {{SubSeq(t, 1, n) : n \in 0..Len(t)} : t \in BaseTexts}

\* json.loads(text) for texts made of objects, arrays, strings and unsigned
\* integers without whitespace: whether it parses, the type of the value
\* and, for an object, its keys (as written between the quotes)
JsonFail == [ok |-> FALSE, next |-> 0, t |-> "", keys |-> {}]

\* the characters JSON allows after a backslash (\u apart)
JsonEscapes == {"\"", "\\", "/", "b", "f", "n", "r", "t"}

\* the closing quote of the string literal whose content starts at q; 0 when
\* the literal does not end or holds an invalid escape
RECURSIVE StringEnd(_, _)
StringEnd(s, q) ==
  IF q > Len(s) THEN 0
  ELSE IF s[q] = "\"" THEN q
  ELSE IF s[q] = "\\"
       THEN IF q + 1 <= Len(s) /\ s[q + 1] \in JsonEscapes
            THEN StringEnd(s, q + 2) ELSE 0
       ELSE StringEnd(s, q + 1)

\* the position behind the integer that starts at p: a lone 0, or a run of
\* digits
RECURSIVE IntEnd(_, _)
IntEnd(s, p) ==
  IF p > Len(s) \/ s[p] \notin Digits THEN p ELSE IntEnd(s, p + 1)

RECURSIVE ParseValue(_, _)
RECURSIVE ParseMembers(_, _, _)
RECURSIVE ParseElements(_, _)

\* the value that starts at p
ParseValue(s, p) ==
  IF p > Len(s) THEN JsonFail
  ELSE IF s[p] = "{"
  THEN IF p + 1 <= Len(s) /\ s[p + 1] = "}"
       THEN [ok |-> TRUE, next |-> p + 2, t |-> "dict", keys |-> {}]
       ELSE ParseMembers(s, p + 1, {})
  ELSE IF s[p] = "["
  THEN IF p + 1 <= Len(s) /\ s[p + 1] = "]"
       THEN [ok |-> TRUE, next |-> p + 2, t |-> "list", keys |-> {}]
       ELSE ParseElements(s, p + 1)
  ELSE IF s[p] = "\""
  THEN IF StringEnd(s, p + 1) = 0 THEN JsonFail
       ELSE [ok |-> TRUE, next |-> StringEnd(s, p + 1) + 1, t |-> "str",
             keys |-> {}]
  ELSE IF s[p] \in Digits
  THEN [ok |-> TRUE, next |-> IF s[p] = "0" THEN p + 1 ELSE IntEnd(s, p),
        t |-> "int", keys |-> {}]
  ELSE JsonFail

\* the members of an object from the member that starts at p
ParseMembers(s, p, keys) ==
  IF p > Len(s) \/ s[p] # "\"" THEN JsonFail
  ELSE LET e == StringEnd(s, p + 1)
       IN IF e = 0 \/ e + 1 > Len(s) \/ s[e + 1] # ":" THEN JsonFail
          ELSE LET v == ParseValue(s, e + 2)
                   ks == keys \cup {SubSeq(s, p + 1, e - 1)}
               IN IF ~v.ok \/ v.next > Len(s) THEN JsonFail
                  ELSE IF s[v.next] = "," THEN ParseMembers(s, v.next + 1, ks)
                  ELSE IF s[v.next] = "}"
                  THEN [ok |-> TRUE, next |-> v.next + 1, t |-> "dict",
                        keys |-> ks]
                  ELSE JsonFail

\* the elements of an array from the element that starts at p
ParseElements(s, p) ==
  LET v == ParseValue(s, p)
  IN IF ~v.ok \/ v.next > Len(s) THEN JsonFail
     ELSE IF s[v.next] = "," THEN ParseElements(s, v.next + 1)
     ELSE IF s[v.next] = "]"
     THEN [ok |-> TRUE, next |-> v.next + 1, t |-> "list", keys |-> {}]
     ELSE JsonFail

\* json.loads: the whole text must be one value
json_loads(s) ==
  LET v == ParseValue(s, 1)
  IN IF v.ok /\ v.next = Len(s) + 1 THEN v ELSE JsonFail

\* how the names of REQUIRED_TOP_KEYS are written
Spelling(key) ==
  CASE key = "cik" -> <<"c", "i", "k">>
    [] key = "entityName" -> <<"e", "n", "t", "i", "t", "y", "N", "a", "m", "e">>
    [] key = "facts" -> <<"f", "a", "c", "t", "s">>

HasAnyTopKey(keys) == \E k \in REQUIRED_TOP_KEYS : Spelling(k) \in keys

\* REQUIRED_TOP_KEYS.issubset(data.keys())
HasTopKeys(keys) == \A k \in REQUIRED_TOP_KEYS : Spelling(k) \in keys

CloserAlwaysBrace(bracket) == "}"

\* "]" if bracket == "[" else "}"
Closer(bracket) == IF bracket = "[" THEN "]" ELSE "}"

\* the closers of reversed(stack_at_good)
RECURSIVE SealClosers(_)
SealClosers(open) ==
  IF open = <<>> THEN <<>>
  ELSE <<Closer(open[Len(open)])>> \o SealClosers(SubSeq(open, 1, Len(open) - 1))

\* the variables repair_truncated_json does not touch
driver ==
  <<json_files, force, fail_fast, run_no, locals, exit_code, disk, outcomes,
    reads, start_disk, rank_in, rank_out>>

\* a call of repair_truncated_json(raw, filepath)
InitRepair ==
  /\ raw \in RawTexts
  /\ pos = 0
  /\ stack = <<>>
  /\ last_good_pos = 0
  /\ stack_at_good = <<>>
  /\ in_string = FALSE
  /\ escape_next = FALSE
  /\ repaired = <<>>
  /\ data = [t |-> "running"]
  /\ pc = "scan"
  /\ json_files = <<>>
  /\ force = FALSE
  /\ fail_fast = FALSE
  /\ run_no = 1
  /\ i = 0
  /\ entity_rows = <<>>
  /\ all_concepts = EmptyDict
  /\ all_filings = {}
  /\ rag_rows = <<>>
  /\ counts = ZeroCounts
  /\ errors = <<>>
  /\ facts_writer = "none"
  /\ pending = "none"
  /\ exit_code = -1
  /\ disk = [f \in OutputNames |-> Absent]
  /\ outcomes = <<>>
  /\ reads = {}
  /\ start_disk = disk
  /\ rank_in = <<>>
  /\ rank_out = <<>>

\* the loop is at character raw[pos + 1] (ch, with i = pos)
Scanning == pc = "scan" /\ pos < Len(raw)

\* lines 191-193: the character after a backslash inside a string
ScanEscaped ==
  /\ Scanning
  /\ escape_next
  /\ escape_next' = FALSE
  /\ pos' = pos + 1
  /\ UNCHANGED <<pc, raw, stack, last_good_pos, stack_at_good, in_string,
                 repaired, data, driver>>

\* lines 194-196: a backslash inside a string
ScanBackslash ==
  /\ Scanning
  /\ ~escape_next
  /\ raw[pos + 1] = "\\" /\ in_string
  /\ escape_next' = TRUE
  /\ pos' = pos + 1
  /\ UNCHANGED <<pc, raw, stack, last_good_pos, stack_at_good, in_string,
                 repaired, data, driver>>

\* lines 197-199: a quote opens or closes a string
ScanQuote ==
  /\ Scanning
  /\ ~escape_next
  /\ raw[pos + 1] = "\""
  /\ in_string' = ~in_string
  /\ pos' = pos + 1
  /\ UNCHANGED <<pc, raw, stack, last_good_pos, stack_at_good, escape_next,
                 repaired, data, driver>>

\* lines 200-201: any other character inside a string
ScanInString ==
  /\ Scanning
  /\ ~escape_next
  /\ raw[pos + 1] \notin {"\\", "\""}
  /\ in_string
  /\ pos' = pos + 1
  /\ UNCHANGED <<pc, raw, stack, last_good_pos, stack_at_good, in_string,
                 escape_next, repaired, data, driver>>

\* lines 203-204: an opening bracket outside a string
ScanOpen ==
  /\ Scanning
  /\ ~escape_next /\ ~in_string
  /\ raw[pos + 1] \in {"{", "["}
  /\ stack' = Append(stack, raw[pos + 1])
  /\ pos' = pos + 1
  /\ UNCHANGED <<pc, raw, last_good_pos, stack_at_good, in_string,
                 escape_next, repaired, data, driver>>

\* the closer raw[pos + 1] matches the top of the stack
ClosesTop ==
  /\ stack # <<>>
  /\ stack[Len(stack)] = (IF raw[pos + 1] = "}" THEN "{" ELSE "[")

\* lines 205-216: a closing bracket that matches the top of the stack
ScanClose ==
  /\ Scanning
  /\ ~escape_next /\ ~in_string
  /\ raw[pos + 1] \in {"}", "]"}
  /\ ClosesTop
  /\ stack' = SubSeq(stack, 1, Len(stack) - 1)
  /\ last_good_pos' = pos + 1
  /\ stack_at_good' = stack'
  /\ pos' = pos + 1
  /\ UNCHANGED <<pc, raw, in_string, escape_next, repaired, data, driver>>

\* lines 206-207, 212-213: a closing bracket that does not: break
ScanBreak ==
  /\ Scanning
  /\ ~escape_next /\ ~in_string
  /\ raw[pos + 1] \in {"}", "]"}
  /\ ~ClosesTop
  /\ pc' = "scanned"
  /\ UNCHANGED <<scanner, driver>>

\* any other character outside a string
ScanOther ==
  /\ Scanning
  /\ ~escape_next /\ ~in_string
  /\ raw[pos + 1] \notin {"\"", "{", "[", "}", "]"}
  /\ pos' = pos + 1
  /\ UNCHANGED <<pc, raw, stack, last_good_pos, stack_at_good, in_string,
                 escape_next, repaired, data, driver>>

\* the loop runs out of characters
ScanEnd ==
  /\ pc = "scan"
  /\ pos = Len(raw)
  /\ pc' = "scanned"
  /\ UNCHANGED <<scanner, driver>>

\* lines 218-219: no closer was matched
ReturnNoCloser ==
  /\ pc = "scanned"
  /\ last_good_pos = 0
  /\ data' = [t |-> "None"]
  /\ pc' = "returned"
  /\ UNCHANGED <<raw, pos, stack, last_good_pos, stack_at_good, in_string,
                 escape_next, repaired, driver>>

\* lines 221-223: the sealed text
Seal ==
  /\ pc = "scanned"
  /\ last_good_pos # 0
  /\ repaired' = SubSeq(raw, 1, last_good_pos) \o SealClosers(stack_at_good)
  /\ pc' = "sealed"
  /\ UNCHANGED <<raw, pos, stack, last_good_pos, stack_at_good, in_string,
                 escape_next, data, driver>>

\* lines 225-228: json.loads raises JSONDecodeError
LoadsRaises ==
  /\ pc = "sealed"
  /\ ~json_loads(repaired).ok
  /\ data' = [t |-> "None"]
  /\ pc' = "returned"
  /\ UNCHANGED <<raw, pos, stack, last_good_pos, stack_at_good, in_string,
                 escape_next, repaired, driver>>

\* lines 230-231: the value is not a dict
ReturnNotDict ==
  /\ pc = "sealed"
  /\ json_loads(repaired).ok
  /\ json_loads(repaired).t # "dict"
  /\ data' = [t |-> "None"]
  /\ pc' = "returned"
  /\ UNCHANGED <<raw, pos, stack, last_good_pos, stack_at_good, in_string,
                 escape_next, repaired, driver>>

\* lines 232-233: a required top-level key is missing
ReturnMissingKeys ==
  /\ pc = "sealed"
  /\ json_loads(repaired).ok
  /\ json_loads(repaired).t = "dict"
  /\ ~HasTopKeys(json_loads(repaired).keys)
  /\ data' = [t |-> "None"]
  /\ pc' = "returned"
  /\ UNCHANGED <<raw, pos, stack, last_good_pos, stack_at_good, in_string,
                 escape_next, repaired, driver>>

\* lines 235-239: the parsed dict is returned
ReturnData ==
  /\ pc = "sealed"
  /\ json_loads(repaired).ok
  /\ json_loads(repaired).t = "dict"
  /\ HasTopKeys(json_loads(repaired).keys)
  /\ data' = [t |-> "dict", keys |-> json_loads(repaired).keys]
  /\ pc' = "returned"
  /\ UNCHANGED <<raw, pos, stack, last_good_pos, stack_at_good, in_string,
                 escape_next, repaired, driver>>

NextRepair ==
  \/ ScanEscaped
  \/ ScanBackslash
  \/ ScanQuote
  \/ ScanInString
  \/ ScanOpen
  \/ ScanClose
  \/ ScanBreak
  \/ ScanOther
  \/ ScanEnd
  \/ ReturnNoCloser
  \/ Seal
  \/ LoadsRaises
  \/ ReturnNotDict
  \/ ReturnMissingKeys
  \/ ReturnData

SpecRepair == InitRepair /\ [][NextRepair]_vars

\* ------------------------------------------------------------------------
\* Properties of the ranker
\* ------------------------------------------------------------------------

\* the positions of the rows of a list that are in the group of row k
GroupOf(rows, k) ==
  {j \in 1..Len(rows) : GroupKey(rows[j]) = GroupKey(rows[k])}

\* C1: after dedup_rank_facts every group has exactly one preferred row; it
\* has the latest filed_date of the group and, among the rows with that
\* filed_date, the smallest form priority number.
C1_PreferredIsLatestThenBestForm ==
  \A k \in 1..Len(rank_out) :
    LET G == GroupOf(rank_out, k)
        P == {j \in G : rank_out[j].is_preferred}
    IN /\ Cardinality(P) = 1
       /\ \A p \in P : \A j \in G :
            /\ rank_out[j].filed_date <= rank_out[p].filed_date
            /\ rank_out[j].filed_date = rank_out[p].filed_date
                 => FormPriority(rank_out[p].form) <= FormPriority(rank_out[j].form)

\* an 8-K row followed by a 10-K row of the same group and filed date, and
\* an unlisted form ahead of a listed one: the later rows are preferred
C1_Witness ==
  /\ pc = "ranked"
  /\ \E a, b \in 1..Len(rank_out) :
       /\ a < b
       /\ b \in GroupOf(rank_out, a)
       /\ rank_out[a].filed_date = rank_out[b].filed_date
       /\ rank_out[a].form \in {"8-K", "S-1"}
       /\ rank_out[b].form = "10-K"
       /\ rank_out[b].is_preferred
       /\ ~rank_out[a].is_preferred

\* C2: is_preferred holds exactly of the rows with revision_rank 1, and the
\* ranks of a group of N rows are 1..N, each used once.
C2_RanksArePermutation ==
  \A k \in 1..Len(rank_out) :
    LET G == GroupOf(rank_out, k)
    IN /\ rank_out[k].is_preferred <=> rank_out[k].revision_rank = 1
       /\ {rank_out[j].revision_rank : j \in G} = 1..Cardinality(G)
       /\ \A a, b \in G :
            rank_out[a].revision_rank = rank_out[b].revision_rank => a = b

\* a group of two or more rows next to a group of a single row
C2_Witness ==
  /\ pc = "ranked"
  /\ \E a, b \in 1..Len(rank_out) :
       /\ Cardinality(GroupOf(rank_out, a)) >= 2
       /\ GroupOf(rank_out, b) = {b}
       /\ rank_out[b].revision_rank = 1
       /\ rank_out[b].is_preferred

\* ------------------------------------------------------------------------
\* Properties of a run
\* ------------------------------------------------------------------------

\* the current run has written its manifest, the last output of a run
Completed == disk["manifest"].run = run_no

\* the current run found a facts file
HadFacts == start_disk["facts"].run # 0

\* the identity fields of a fact row or RAG row
Ident(r) ==
  <<r.cik, r.taxonomy, r.concept, r.unit, r.start_date, r.end_date, r.fy,
    r.fp, r.form, r.filed_date, r.accession_number, r.value>>

\* the positions of the rows of a list with a given identity
Matches(rows, id) == {k \in 1..Len(rows) : Ident(rows[k]) = id}

\* C3: in the facts table of a completed run every (cik, group) has exactly
\* one row that is preferred and of rank 1, and its other rows have pairwise
\* distinct ranks of at least 2.
C3_OnePreferredPerCompanyGroup ==
  Completed =>
    LET rows == disk["facts"].content
    IN \A k \in 1..Len(rows) :
         LET G == {j \in GroupOf(rows, k) : rows[j].cik = rows[k].cik}
             P == {j \in G : rows[j].is_preferred /\ rows[j].revision_rank = 1}
         IN /\ Cardinality(P) = 1
            /\ \A a, b \in G \ P :
                 /\ rows[a].revision_rank >= 2
                 /\ rows[a].revision_rank = rows[b].revision_rank => a = b

\* C4: after a completed run the RAG index holds one row for each preferred
\* Tier-1 row of the facts table and no other row, and a RAG row's identity
\* fields select exactly one row of the facts table.
C4_RagIffPreferredTier1 ==
  Completed =>
    LET facts == disk["facts"].content
        rag == disk["rag"].content
    IN /\ \A k \in 1..Len(facts) :
            (facts[k].is_preferred /\ facts[k].concept \in TIER1_CONCEPTS)
              => Cardinality(Matches(rag, Ident(facts[k]))) = 1
       /\ \A k \in 1..Len(rag) :
            /\ Cardinality(Matches(facts, Ident(rag[k]))) = 1
            /\ \A j \in Matches(facts, Ident(rag[k])) :
                 facts[j].is_preferred /\ facts[j].concept \in TIER1_CONCEPTS

\* a text of exactly ten decimal digits
TenDigits(s) == Len(s) = CIK_WIDTH /\ \A k \in 1..Len(s) : s[k] \in Digits

\* C5: every cik in the entity, facts, filings and RAG tables is a text of
\* exactly ten decimal digits.
C5_CikIsTenDigits ==
  \A n \in {"facts", "entity_master", "filings", "rag"} :
    \A k \in 1..Len(disk[n].content) : TenDigits(disk[n].content[k].cik)

Raises ==
  /\ pc = "loop"
  /\ json_files[i].stat = "ok"
  /\ json_files[i].size >= MIN_FILE_SIZE_BYTES
  /\ TryBody(json_files[i]).err # ""

RECURSIVE Survivors(_)
Survivors(k) ==
  IF k = 0 THEN <<>>
  ELSE Survivors(k - 1) \o
         (IF outcomes[k] # "error" THEN <<json_files[k]>> ELSE <<>>)

\* what a run without errors over a list of files leaves in the outputs
RECURSIVE RunAlone(_, _)
RunAlone(files, acc) ==
  IF files = <<>> THEN acc
  ELSE LET f == Head(files)
           r == IF f.stat = "ok" /\ f.size >= MIN_FILE_SIZE_BYTES
                THEN TryBody(f) ELSE NoEffect("")
       IN RunAlone(Tail(files),
            [entity_rows |-> acc.entity_rows \o r.entity,
             all_concepts |-> DictUpdate(acc.all_concepts, r.concepts),
             all_filings |-> acc.all_filings \cup r.filings,
             facts |-> acc.facts \o r.batch,
             rag_rows |-> acc.rag_rows \o r.rag])

\* a is b with some elements left out
RECURSIVE IsSubseq(_, _)
IsSubseq(a, b) ==
  IF a = <<>> THEN TRUE
  ELSE IF b = <<>> THEN FALSE
  ELSE IF Head(a) = Head(b) THEN IsSubseq(Tail(a), Tail(b))
  ELSE IsSubseq(a, Tail(b))

\* C8: in a completed run without fail-fast, what the files not counted as
\* errors contribute to the outputs is what a run over those files alone
\* produces: their entity, fact, filing and RAG rows, and the label and
\* description of each of their concepts.
C8_ErrorFilesChangeNothing ==
  (Completed /\ ~fail_fast) =>
    LET alone == RunAlone(Survivors(total),
                   [entity_rows |-> <<>>, all_concepts |-> EmptyDict,
                    all_filings |-> {}, facts |-> <<>>, rag_rows |-> <<>>])
    IN /\ IsSubseq(alone.entity_rows, disk["entity_master"].content)
       /\ IsSubseq(alone.facts, disk["facts"].content)
       /\ IsSubseq(FilingRows(alone.all_filings), disk["filings"].content)
       /\ IsSubseq(alone.rag_rows, disk["rag"].content)
       /\ IsSubseq(ConceptRows(alone.all_concepts), disk["concepts"].content)

\* the batches the try blocks of the first k files wrote to the facts file
RECURSIVE WrittenBatches(_)
WrittenBatches(k) ==
  IF k = 0 THEN <<>>
  ELSE WrittenBatches(k - 1) \o
         (IF outcomes[k] \in {"ok", "repaired", "error"}
          THEN TryBody(json_files[k]).batch ELSE <<>>)

\* the current run has opened the facts writer
Opened == disk["facts"].run = run_no

\* C9: once a run that opened the facts writer has left the file loop and
\* its finally block, the writer is closed: before the process ends with
\* status 1, before any other table and before the manifest is written; the
\* closed file holds every batch that was written.
C9_WriterClosedOnEveryPath ==
  /\ (Opened /\ pc \in {"tables", "manifest", "finish", "exited"})
       => facts_writer = "closed"
  /\ (Opened /\ exit_code # -1) => facts_writer = "closed"
  /\ (\E n \in OutputNames \ {"facts"} : disk[n].run = run_no)
       => facts_writer = "closed"
  /\ facts_writer = "closed"
       => disk["facts"].content = WrittenBatches(Len(outcomes))
  /\ facts_writer = "none" => ~Opened

\* the fail-fast abort after an earlier file had its facts written
C9_Witness ==
  /\ pc = "exited"
  /\ pending = "exit1"
  /\ exit_code = 1
  /\ facts_writer = "closed"
  /\ outcomes[1] = "ok"
  /\ disk["facts"].content # <<>>
  /\ ~Completed

Sized(file) == file.stat = "ok" /\ file.size >= MIN_FILE_SIZE_BYTES

\* validation and extraction of the strictly parsed document raise nothing
ExtractsFully(file) ==
  /\ validate_top_level(file.doc).err = ""
  /\ extract_from_file(validate_top_level(file.doc).data, FALSE).err = ""

\* the partial flags of the entity rows a list of outcomes stands for
RECURSIVE PartialFlags(_)
PartialFlags(outs) ==
  IF outs = <<>> THEN <<>>
  ELSE (CASE Head(outs) = "ok" -> <<FALSE>>
          [] Head(outs) = "repaired" -> <<TRUE>>
          [] OTHER -> <<>>) \o PartialFlags(Tail(outs))

\* C11 as stated: a file of at least 100 bytes that parses strictly and
\* extracts fully is counted processed_ok, one that only repair can read is
\* counted repaired_truncated, one that neither can read is counted as an
\* error; the entity rows are those of the ok files (partial = false) and
\* of the repaired files (partial = true), an error file has none.
C11_OneOutcomePerFile ==
  /\ \A k \in 1..Len(outcomes) :
       Sized(json_files[k]) =>
         /\ (json_files[k].parse = "strict" /\ ExtractsFully(json_files[k]))
              => outcomes[k] = "ok"
         /\ json_files[k].parse = "repair" => outcomes[k] = "repaired"
         /\ json_files[k].parse = "fail" => outcomes[k] = "error"
  /\ [n \in 1..Len(entity_rows) |-> entity_rows[n].partial]
       = PartialFlags(outcomes)

\* ------------------------------------------------------------------------
\* C12
\* ------------------------------------------------------------------------

\* C12: the step that handles a file below 100 bytes adds one to
\* skipped_empty and to no other counter, and leaves the entity rows, the
\* concepts, the filings, the RAG rows, the error list, every output file
\* and the set of opened files as they were.
C12_SmallFileOnlyCounted ==
  [][(pc = "loop" /\ json_files[i].stat = "ok"
        /\ json_files[i].size < MIN_FILE_SIZE_BYTES)
       => /\ counts' = [counts EXCEPT !.skipped_empty = @ + 1]
          /\ UNCHANGED <<entity_rows, all_concepts, all_filings, rag_rows,
                         errors, disk, reads>>]_vars

\* a small file skipped after a file that left rows in the accumulators
C12_Witness ==
  /\ Len(outcomes) = 2
  /\ outcomes[1] = "ok"
  /\ outcomes[2] = "skipped_empty"
  /\ counts.skipped_empty = 1
  /\ counts.ok = 1
  /\ Len(entity_rows) = 1
  /\ 2 \notin reads

\* ------------------------------------------------------------------------
\* C13
\* ------------------------------------------------------------------------

\* the filing a fact row or a filings row names
FilingOf(r) == <<r.cik, r.accession_number, r.form, r.filed_date>>

\* C13 as stated: after a completed run the filing of every fact row is in
\* exactly one row of the filings table, and every filings row is the
\* filing of at least one fact row.
C13_FilingsMatchFacts ==
  Completed =>
    LET facts == disk["facts"].content
        filings == disk["filings"].content
    IN /\ \A k \in 1..Len(facts) :
            Cardinality({n \in 1..Len(filings) :
                           FilingOf(filings[n]) = FilingOf(facts[k])}) = 1
       /\ \A n \in 1..Len(filings) :
            \E k \in 1..Len(facts) : FilingOf(facts[k]) = FilingOf(filings[n])

\* ------------------------------------------------------------------------
\* C14
\* ------------------------------------------------------------------------

\* C14 as stated: after a completed run no two rows of the filings table
\* have the same cik and accession number.
C14_OneFilingPerAccession ==
  Completed =>
    LET filings == disk["filings"].content
    IN \A m, n \in 1..Len(filings) :
         (filings[m].cik = filings[n].cik
            /\ filings[m].accession_number = filings[n].accession_number)
           => m = n

\* ------------------------------------------------------------------------
\* C15
\* ------------------------------------------------------------------------

\* C15: every row of the facts file has period_type duration when its
\* start_date is a non-empty string, and instant when its start_date is
\* empty (a start that was absent or "") or null.
C15_PeriodTypeFollowsStart ==
  \A k \in 1..Len(disk["facts"].content) :
    LET r == disk["facts"].content[k]
    IN r.period_type =
         (IF r.start_date # 0 /\ r.start_date # NoneDate
          THEN "duration" ELSE "instant")

\* a file whose first datapoint has no start and whose second has a date
C15_Witness ==
  /\ Len(disk["facts"].content) = 2
  /\ "start" \notin json_files[1].doc.facts.items[1].items[1].units.items[1].dps[1].keys
  /\ disk["facts"].content[1].start_date = 0
  /\ disk["facts"].content[1].period_type = "instant"
  /\ disk["facts"].content[2].start_date = 1
  /\ disk["facts"].content[2].period_type = "duration"

\* ------------------------------------------------------------------------
\* C16
\* ------------------------------------------------------------------------

\* C16 as stated: the period key of every row of the facts file is the
\* fy-fp form, made of the row's fy and fp, exactly when the row's stored
\* fy is non-null and its stored fp is non-empty; otherwise it is the
\* start:end form when the start date is present, and the end date if not.
C16_PeriodKeyFollowsStoredFields ==
  \A k \in 1..Len(disk["facts"].content) :
    LET r == disk["facts"].content[k]
        key == r.period_key
    IN IF r.fy.t = "int" /\ r.fp # ""
       THEN key.kind = "fy-fp" /\ key.fy = r.fy.n /\ key.fp = r.fp
       ELSE IF r.start_date # 0 /\ r.start_date # NoneDate
       THEN /\ key.kind = "start:end"
            /\ key.start_date = r.start_date
            /\ key.end_date = r.end_date
       ELSE key.kind = "end" /\ key.end_date = r.end_date

\* ------------------------------------------------------------------------
\* C17
\* ------------------------------------------------------------------------

\* the document holds, in a unit list of a concept of a taxonomy, a
\* datapoint with the seven required fields whose val is a text float()
\* rejects or null
HasUncoercibleVal(doc) ==
  /\ doc.t = "dict"
  /\ doc.facts.t = "dict"
  /\ \E a \in 1..Len(doc.facts.items) :
       LET x == doc.facts.items[a]
       IN /\ x.t = "dict"
          /\ \E b \in 1..Len(x.items) :
               LET c == x.items[b]
               IN /\ c.t = "dict"
                  /\ c.units.t = "dict"
                  /\ \E d \in 1..Len(c.units.items) :
                       LET u == c.units.items[d]
                       IN /\ u.t = "list"
                          /\ \E e \in 1..Len(u.dps) :
                               /\ u.dps[e].t = "dict"
                               /\ REQUIRED_DATAPOINT_FIELDS \subseteq u.dps[e].keys
                               /\ u.dps[e].val.t \in {"text", "null"}

\* C17: a file that json.loads or repair can read and that holds a
\* datapoint with all required fields and a val that cannot be coerced to
\* float is counted as an error, in strict and in partial mode, and no fact
\* row of its company is in the facts file unless another input file is of
\* the same company.
C17_UncoercibleValFailsFile ==
  \A k \in 1..Len(outcomes) :
    LET file == json_files[k]
    IN (Sized(file) /\ file.parse # "fail" /\ HasUncoercibleVal(file.doc)) =>
         /\ outcomes[k] = "error"
         /\ (\A j \in 1..total : j # k => json_files[j] # file) =>
              \A n \in 1..Len(disk["facts"].content) :
                disk["facts"].content[n].cik # CikStr(file.doc.cik)

\* a repaired file with such a datapoint after a good one: counted as an
\* error, and the closed facts file is empty
C17_Witness ==
  /\ Len(outcomes) = 1
  /\ json_files[1].parse = "repair"
  /\ HasUncoercibleVal(json_files[1].doc)
  /\ outcomes[1] = "error"
  /\ facts_writer = "closed"
  /\ disk["facts"].run = run_no
  /\ disk["facts"].content = <<>>

\* ------------------------------------------------------------------------
\* C18
\* ------------------------------------------------------------------------

\* C18 as stated: every value in the facts file is a finite float.
C18_ValuesAreFinite ==
  \A k \in 1..Len(disk["facts"].content) :
    disk["facts"].content[k].value.t = "fin"

\* ------------------------------------------------------------------------
\* C19
\* ------------------------------------------------------------------------

\* where a fact row comes from: its place in the document and its filing
Origin(taxonomy, concept, unit, accn, form, filed, end) ==
  <<taxonomy, concept, unit, accn, form, filed, end>>

\* the datapoints of a document that have the seven required fields, in the
\* order taxonomy, concept, unit, datapoint
RECURSIVE TraverseDps(_, _, _, _)
TraverseDps(taxonomy, concept, unit, dps) ==
  IF dps = <<>> THEN <<>>
  ELSE LET dp == Head(dps)
       IN (IF dp.t = "dict" /\ REQUIRED_DATAPOINT_FIELDS \subseteq dp.keys
           THEN <<Origin(taxonomy, concept, unit, dp.accn, dp.form, dp.filed,
                         dp.end)>>
           ELSE <<>>) \o TraverseDps(taxonomy, concept, unit, Tail(dps))

RECURSIVE TraverseUnits(_, _, _)
TraverseUnits(taxonomy, concept, units) ==
  IF units = <<>> THEN <<>>
  ELSE (IF Head(units).t = "list"
        THEN TraverseDps(taxonomy, concept, Head(units).name, Head(units).dps)
        ELSE <<>>) \o TraverseUnits(taxonomy, concept, Tail(units))

RECURSIVE TraverseConcepts(_, _)
TraverseConcepts(taxonomy, cons) ==
  IF cons = <<>> THEN <<>>
  ELSE (IF Head(cons).t = "dict" /\ Head(cons).units.t = "dict"
        THEN TraverseUnits(taxonomy, Head(cons).name, Head(cons).units.items)
        ELSE <<>>) \o TraverseConcepts(taxonomy, Tail(cons))

RECURSIVE TraverseTaxonomies(_)
TraverseTaxonomies(taxs) ==
  IF taxs = <<>> THEN <<>>
  ELSE (IF Head(taxs).t = "dict"
        THEN TraverseConcepts(Head(taxs).name, Head(taxs).items)
        ELSE <<>>) \o TraverseTaxonomies(Tail(taxs))

Traversal(doc) ==
  IF doc.t = "dict" /\ doc.facts.t = "dict"
  THEN TraverseTaxonomies(doc.facts.items) ELSE <<>>

\* the traversals of the first k input files that wrote[k] selects, in
\* input order
RECURSIVE TraversalsOf(_, _)
TraversalsOf(k, wrote) ==
  IF k = 0 THEN <<>>
  ELSE TraversalsOf(k - 1, wrote)
         \o (IF wrote[k] THEN Traversal(json_files[k].doc) ELSE <<>>)

\* C19: after a completed run the concepts rows are in ascending order of
\* (taxonomy, concept), the filings rows in ascending lexicographic order of
\* (cik, accession_number, form, filed_date), and the fact rows come file
\* by file in input order and, inside a file, in the order taxonomy,
\* concept, unit, datapoint of its document; every file counted ok or
\* repaired has its rows there.
C19_OutputOrder ==
  Completed =>
    LET concepts == disk["concepts"].content
        filings == disk["filings"].content
        facts == disk["facts"].content
    IN /\ \A n \in 1..(Len(concepts) - 1) :
            ConceptKeyLess(<<concepts[n].taxonomy, concepts[n].concept>>,
                           <<concepts[n + 1].taxonomy, concepts[n + 1].concept>>)
       /\ \A n \in 1..(Len(filings) - 1) :
            FilingLess(FilingOf(filings[n]), FilingOf(filings[n + 1]))
       /\ \E wrote \in [1..Len(outcomes) -> BOOLEAN] :
            /\ \A k \in 1..Len(outcomes) :
                 outcomes[k] \in {"ok", "repaired"} => wrote[k]
            /\ [n \in 1..Len(facts) |->
                  Origin(facts[n].taxonomy, facts[n].concept, facts[n].unit,
                         facts[n].accession_number, facts[n].form,
                         facts[n].filed_date, facts[n].end_date)]
                 = TraversalsOf(Len(outcomes), wrote)

\* a repaired file of one company, then a strictly parsed file of a company
\* with a smaller cik whose concepts sort before the first file's
C19_Witness ==
  /\ Completed
  /\ outcomes = <<"repaired", "ok">>
  /\ Len(disk["concepts"].content) = 4
  /\ Len(disk["filings"].content) = 3
  /\ Len(disk["facts"].content) = 4
  /\ disk["facts"].content[1].concept = "Revenues"
  /\ disk["concepts"].content[1].concept = "Assets"
  /\ disk["filings"].content[1].accession_number = "A1"

\* ------------------------------------------------------------------------
\* C20
\* ------------------------------------------------------------------------

\* C20 as stated: after a completed run no two rows of entity_master have
\* the same cik.
C20_OneEntityRowPerCik ==
  Completed =>
    LET entities == disk["entity_master"].content
    IN \A m, n \in 1..Len(entities) :
         entities[m].cik = entities[n].cik => m = n

\* ------------------------------------------------------------------------
\* C21
\* ------------------------------------------------------------------------

\* the latest non-empty filed date among the datapoints of a traversal, the
\* empty date when there is none
RECURSIVE LatestFiled(_)
LatestFiled(origins) ==
  IF origins = <<>> THEN 0
  ELSE LET rest == LatestFiled(Tail(origins))
           filed == Head(origins)[6]
       IN IF filed > rest THEN filed ELSE rest

\* cik and last_seen_filing_date required of the entity rows of the first k
\* input files that has[k] selects
RECURSIVE EntitiesOf(_, _)
EntitiesOf(k, has) ==
  IF k = 0 THEN <<>>
  ELSE EntitiesOf(k - 1, has)
         \o (IF has[k]
             THEN <<<<CikStr(validate_top_level(json_files[k].doc).data.cik),
                      LatestFiled(Traversal(json_files[k].doc))>>>>
             ELSE <<>>)

\* C21: the entity rows are, in input order, those of files that passed
\* validation (among them every file counted ok or repaired), and each
\* row's last_seen_filing_date is the latest filed date among the
\* datapoints extracted from its file, empty when the file yields no fact
\* or only facts with an empty filed date.
C21_LastSeenIsMaxFiled ==
  \E has \in [1..Len(outcomes) -> BOOLEAN] :
    /\ \A k \in 1..Len(outcomes) :
         /\ outcomes[k] \in {"ok", "repaired"} => has[k]
         /\ has[k] => /\ Sized(json_files[k])
                      /\ json_files[k].parse # "fail"
                      /\ validate_top_level(json_files[k].doc).err = ""
    /\ [n \in 1..Len(entity_rows) |->
          <<entity_rows[n].cik, entity_rows[n].last_seen_filing_date>>]
         = EntitiesOf(Len(outcomes), has)

\* a file whose last fact was filed before an earlier one, then a file
\* without facts
C21_Witness ==
  /\ Completed
  /\ Len(disk["entity_master"].content) = 2
  /\ disk["entity_master"].content[1].last_seen_filing_date = 2
  /\ disk["facts"].content[Len(disk["facts"].content)].filed_date = 1
  /\ disk["entity_master"].content[2].last_seen_filing_date = 0
  /\ entity_rows = disk["entity_master"].content

\* ------------------------------------------------------------------------
\* C22
\* ------------------------------------------------------------------------

\* where a reader of string literals stands: outside a string, inside one,
\* or inside one right after a backslash
LexModes == {"out", "in", "esc"}

LexStep(mode, ch) ==
  CASE mode = "esc" -> "in"
    [] mode = "in" -> IF ch = "\\" THEN "esc"
                      ELSE IF ch = "\"" THEN "out"
                      ELSE "in"
    [] mode = "out" -> IF ch = "\"" THEN "in" ELSE "out"

\* what characters a..b do to the reader, as a map from the mode before
\* character a to the mode after character b, by halving the range
RECURSIVE LexOver(_, _, _)
LexOver(s, a, b) ==
  IF a > b THEN [m \in LexModes |-> m]
  ELSE IF a = b THEN [m \in LexModes |-> LexStep(m, s[a])]
  ELSE LET mid == (a + b) \div 2
           left == LexOver(s, a, mid)
           right == LexOver(s, mid + 1, b)
       IN [m \in LexModes |-> right[left[m]]]

\* the openers and closers of a text that stand outside string literals
Brackets(s, kinds) ==
  {n \in 1..Len(s) : s[n] \in kinds /\ LexOver(s, 1, n - 1)["out"] = "out"}

\* how many of the positions are among the first n characters
Upto(positions, n) == Cardinality({k \in positions : k <= n})

\* the opener a closer at n answers: the last opener before n with as
\* many openers as closers between the two; 0 when there is none
Partner(n, openers, closers) ==
  LET nesting(k) == Upto(openers, k) - Upto(closers, k)
      answered == {k \in openers : k < n /\ nesting(k - 1) = nesting(n)}
  IN IF answered = {} THEN 0
     ELSE CHOOSE k \in answered : \A m \in answered : m <= k

\* the closer at n does not match the innermost open bracket
Unmatched(s, n, openers, closers) ==
  LET k == Partner(n, openers, closers)
  IN \/ k = 0
     \/ s[n] = "}" /\ s[k] # "{"
     \/ s[n] = "]" /\ s[k] # "["

\* the position of the first unmatched closer, or one past the end
FirstUnmatched(s) ==
  LET openers == Brackets(s, {"{", "["})
      closers == Brackets(s, {"}", "]"})
      bad == {n \in closers : Unmatched(s, n, openers, closers)}
  IN IF bad = {} THEN Len(s) + 1
     ELSE CHOOSE n \in bad : \A m \in bad : n <= m

\* p: the offset just past the last matched closer before the first
\* unmatched one; 0 when there is none
LastMatched(s) ==
  LET stop == FirstUnmatched(s)
      good == {n \in Brackets(s, {"}", "]"}) : n < stop}
  IN IF good = {} THEN 0
     ELSE CHOOSE n \in good : \A m \in good : m <= n

\* the openers among the first p characters that no closer among them
\* answers, outermost first
OpenAt(s, p) ==
  LET openers == Brackets(s, {"{", "["})
      closers == Brackets(s, {"}", "]"})
      answered == {Partner(n, openers, closers) : n \in {c \in closers : c <= p}}
      open == {k \in openers : k <= p /\ k \notin answered}
  IN [nth \in 1..Cardinality(open) |->
        s[CHOOSE k \in open : Upto(open, k) = nth]]

\* raw[0:p] followed by one closer per bracket open at p, innermost first
SealedPrefix(s) ==
  LET p == LastMatched(s)
      open == OpenAt(s, p)
  IN SubSeq(s, 1, p)
       \o [k \in 1..Len(open) |->
             IF open[Len(open) + 1 - k] = "{" THEN "}" ELSE "]"]

\* C22: the text repair_truncated_json hands to json.loads is raw[0:p]
\* followed by one closer per bracket still open at p, innermost first,
\* with p the offset just past the last closer that matched before the
\* first unmatched closer or the end; brackets inside strings and escaped
\* characters do not count; a returned document is the parse of that text.
C22_RepairParsesSealedPrefix ==
  /\ pc \in {"scanned", "sealed"} => last_good_pos = LastMatched(raw)
  /\ pc = "sealed" => repaired = SealedPrefix(raw)
  /\ (pc = "returned" /\ data.t = "dict") =>
       /\ repaired = SealedPrefix(raw)
       /\ json_loads(SealedPrefix(raw)).ok
       /\ data.keys = json_loads(SealedPrefix(raw)).keys

\* a repaired text whose kept prefix holds brackets and escapes inside a
\* string, leaves two brackets open and is followed by more text
C22_Witness ==
  /\ pc = "returned"
  /\ data.t = "dict"
  /\ last_good_pos < Len(raw)
  /\ Len(stack_at_good) = 2
  /\ stack_at_good[1] # stack_at_good[2]
  /\ \E n \in 1..last_good_pos : raw[n] = "\\"

\* ------------------------------------------------------------------------
\* C23
\* ------------------------------------------------------------------------

\* C23: repair_truncated_json returns None exactly when no closer was
\* matched, or the sealed text does not parse, or it parses to something
\* that is not an object, or the object lacks one of cik, entityName and
\* facts; a returned document is an object with all three keys.
C23_RepairFailsOrHasTopKeys ==
  pc = "returned" =>
    /\ data.t \in {"None", "dict"}
    /\ data.t = "None" <=>
         \/ LastMatched(raw) = 0
         \/ ~json_loads(repaired).ok
         \/ json_loads(repaired).t # "dict"
         \/ \E k \in REQUIRED_TOP_KEYS :
              Spelling(k) \notin json_loads(repaired).keys
    /\ data.t = "dict" =>
         \A k \in REQUIRED_TOP_KEYS : Spelling(k) \in data.keys

\* the sealed text is an object with cik and facts but without entityName
C23_Witness ==
  /\ pc = "returned"
  /\ data.t = "None"
  /\ last_good_pos > 0
  /\ json_loads(repaired).ok
  /\ json_loads(repaired).t = "dict"
  /\ Spelling("cik") \in json_loads(repaired).keys
  /\ Spelling("entityName") \notin json_loads(repaired).keys

\* ------------------------------------------------------------------------
\* C24
\* ------------------------------------------------------------------------

\* the members of a sequence
Members(s) == {s[k] : k \in 1..Len(s)}

\* the well-formed containers of a document, level by level
TaxonomiesIn(doc) == {x \in Members(doc.facts.items) : x.t = "dict"}

ConceptsIn(doc) ==
  UNION {{c \in Members(x.items) : c.t = "dict"} : x \in TaxonomiesIn(doc)}

UnitsIn(doc) ==
  UNION {Members(c.units.items) : c \in {c \in ConceptsIn(doc) : c.units.t = "dict"}}

DatapointsIn(doc) ==
  UNION {Members(u.dps) : u \in {u \in UnitsIn(doc) : u.t = "list"}}

\* the document has a shape error below the top level
HasShapeError(doc) ==
  \/ \E x \in Members(doc.facts.items) : x.t # "dict"
  \/ \E x \in TaxonomiesIn(doc) : \E c \in Members(x.items) : c.t # "dict"
  \/ \E c \in ConceptsIn(doc) : c.units.t # "dict"
  \/ \E u \in UnitsIn(doc) : u.t # "list"
  \/ \E dp \in DatapointsIn(doc) :
       dp.t # "dict" \/ ~(REQUIRED_DATAPOINT_FIELDS \subseteq dp.keys)

\* every datapoint with the required fields has a finite number as val and,
\* if it has a frame, a string
SoundValues(doc) ==
  \A dp \in DatapointsIn(doc) :
    (dp.t = "dict" /\ REQUIRED_DATAPOINT_FIELDS \subseteq dp.keys) =>
      /\ dp.val.t = "num"
      /\ "frame" \in dp.keys => dp.frame.t = "str"

\* the rows of the closed facts file that carry the cik of a document
RowsOfCompany(doc) ==
  {n \in 1..Len(disk["facts"].content) :
     disk["facts"].content[n].cik = CikStr(validate_top_level(doc).data.cik)}

\* C24 as stated: a file with a shape error below the top level, alone for
\* its company, is counted as an error in strict mode and none of its facts
\* is written; in partial mode (its values being sound) it is counted as
\* repaired and every well-formed datapoint of it gives a fact row.
C24_ShapeErrorsByMode ==
  \A k \in 1..Len(outcomes) :
    LET file == json_files[k]
    IN (/\ Sized(file)
        /\ file.parse # "fail"
        /\ validate_top_level(file.doc).err = ""
        /\ HasShapeError(file.doc)
        /\ \A j \in 1..total : j # k => json_files[j] # file) =>
         /\ file.parse = "strict" =>
              /\ outcomes[k] = "error"
              /\ RowsOfCompany(file.doc) = {}
         /\ (file.parse = "repair" /\ SoundValues(file.doc)) =>
              /\ outcomes[k] = "repaired"
              /\ facts_writer = "closed" =>
                   Cardinality(RowsOfCompany(file.doc))
                     = Len(Traversal(file.doc))

\* ------------------------------------------------------------------------
\* C25
\* ------------------------------------------------------------------------

\* C25 as stated: a file whose document has the three top-level keys is
\* not counted as an error only if its cik is an integer (a boolean is not
\* one) or a string of digits in optional whitespace, its entityName is a
\* string that is not blank and its facts is a mapping; a cik given as such
\* a string is replaced by its integer value.
C25_TopLevelValidation ==
  \A k \in 1..Len(outcomes) :
    LET file == json_files[k]
        doc == file.doc
    IN (/\ Sized(file)
        /\ file.parse # "fail"
        /\ doc.t = "dict"
        /\ REQUIRED_TOP_KEYS \subseteq doc.keys) =>
         /\ outcomes[k] # "error" =>
              /\ \/ doc.cik.t = "int"
                 \/ doc.cik.t = "str" /\ IsDigit(Strip(doc.cik.s))
              /\ doc.entityName.t = "str"
              /\ Strip(doc.entityName.s) # <<>>
              /\ doc.facts.t = "dict"
         /\ (outcomes[k] # "error" /\ doc.cik.t = "str") =>
              \E n \in 1..Len(entity_rows) :
                entity_rows[n].cik
                  = ZFill(IntOfDigits(Strip(doc.cik.s)), CIK_WIDTH)

\* ------------------------------------------------------------------------
\* C26
\* ------------------------------------------------------------------------

\* C26: dedup_rank_facts returns the facts in their original order and
\* number, each with every field but revision_rank and is_preferred as it
\* was, and each with a rank of at least 1 and a preferred flag.
C26_RankerKeepsOrderAndFields ==
  pc = "ranked" =>
    /\ Len(rank_out) = Len(rank_in)
    /\ \A k \in 1..Len(rank_out) :
         /\ [rank_out[k] EXCEPT !.revision_rank = rank_in[k].revision_rank,
                                !.is_preferred = rank_in[k].is_preferred]
              = rank_in[k]
         /\ rank_out[k].revision_rank \in 1..Len(rank_in)
         /\ rank_out[k].is_preferred \in BOOLEAN

\* a list whose first row is not the preferred one of its group
C26_Witness ==
  /\ pc = "ranked"
  /\ Len(rank_out) = 3
  /\ rank_out[1].revision_rank = 2
  /\ rank_out[2].is_preferred
  /\ rank_out[3].is_preferred
  /\ rank_in[2] # rank_in[3]

\* ------------------------------------------------------------------------
\* C30
\* ------------------------------------------------------------------------

\* C30: of two rows of one group with the same filed date and the same
\* form priority, the one that comes earlier in the list gets the lower
\* rank; ranking the ranked list again changes nothing.
C30_TiesKeepInputOrder ==
  pc = "ranked" =>
    /\ \A j, k \in 1..Len(rank_in) :
         (/\ j < k
          /\ GroupKey(rank_in[j]) = GroupKey(rank_in[k])
          /\ rank_in[j].filed_date = rank_in[k].filed_date
          /\ FormPriority(rank_in[j].form) = FormPriority(rank_in[k].form))
           => rank_out[j].revision_rank < rank_out[k].revision_rank
    /\ dedup_rank_facts(rank_out) = rank_out

\* two equal rows behind which a later filing of the same group comes
C30_Witness ==
  /\ pc = "ranked"
  /\ Len(rank_out) = 3
  /\ rank_in[1] = rank_in[2]
  /\ rank_out[1].revision_rank = 2
  /\ rank_out[2].revision_rank = 3
  /\ rank_out[3].revision_rank = 1

\* ------------------------------------------------------------------------
\* C27
\* ------------------------------------------------------------------------

\* the number of files of the current run that ended with the outcome o
Ended(o) == Cardinality({k \in 1..Len(outcomes) : outcomes[k] = o})

\* C27: at every point of a run each counter is the number of files that
\* ended with its outcome, so the four add up to the number of files whose
\* processing has finished, and the error list has one entry per counted
\* error; every manifest has processed_ok + repaired_truncated +
\* skipped_empty + errors = total_files and len(failed_files) = errors.
C27_CountersAddUp ==
  /\ counts.ok = Ended("ok")
  /\ counts.repaired = Ended("repaired")
  /\ counts.skipped_empty = Ended("skipped_empty")
  /\ counts.error = Ended("error")
  /\ counts.ok + counts.repaired + counts.skipped_empty + counts.error
       = Cardinality({k \in 1..Len(outcomes) : outcomes[k] # "escaped"})
  /\ Len(errors) = counts.error
  /\ disk["manifest"].run # 0 =>
       LET m == disk["manifest"].content
       IN /\ m.processed_ok + m.repaired_truncated + m.skipped_empty + m.errors
               = m.total_files
          /\ Len(m.failed_files) = m.errors

\* a completed run over a failing file and a small file
C27_Witness ==
  /\ Completed
  /\ total = 2
  /\ counts.error = 1
  /\ counts.skipped_empty = 1
  /\ disk["manifest"].content.errors = 1
  /\ disk["manifest"].content.total_files = 2

\* ------------------------------------------------------------------------
\* C28
\* ------------------------------------------------------------------------

\* C28 as stated: the outputs of a completed run are those of a run over
\* the files not counted as errors alone, an error file adding no entity
\* row, concept, filing, fact row or RAG row; and the manifest has
\* entities = processed_ok + repaired_truncated.
C28_ErrorFilesContributeNothing ==
  Completed =>
    LET alone == RunAlone(Survivors(total),
                   [entity_rows |-> <<>>, all_concepts |-> EmptyDict,
                    all_filings |-> {}, facts |-> <<>>, rag_rows |-> <<>>])
        m == disk["manifest"].content
    IN /\ disk["entity_master"].content = alone.entity_rows
       /\ disk["facts"].content = alone.facts
       /\ Len(disk["filings"].content) = Cardinality(alone.all_filings)
       /\ Len(disk["concepts"].content) = Cardinality(DOMAIN alone.all_concepts)
       /\ disk["rag"].content = alone.rag_rows
       /\ m.entities = m.processed_ok + m.repaired_truncated

\* ------------------------------------------------------------------------
\* C29
\* ------------------------------------------------------------------------

\* C29 as stated: whenever a run starts with the gate holding (facts file
\* present, force unset), the entity_master, concepts, filings, RAG index
\* and manifest files exist too.
C29_GateSkipsOnlyCompletedRuns ==
  (pc = "start" /\ GateHolds) => \A n \in OutputNames : disk[n].run # 0

====
